---- MODULE Spec2Model ----
(***************************************************************************)
(* AVR backend: the hand-written parts of the DAG instruction selector     *)
(* (lib/Target/AVR/AVRISelDAGToDAG.cpp) and of the machine-code emitter    *)
(* (lib/Target/AVR/MCTargetDesc/AVRMCCodeEmitter.cpp).                     *)
(*                                                                         *)
(* Every action but Return is one call of one member function on an input *)
(* drawn from a bounded set.  `op' names the function that was called,     *)
(* `arg' records the call's inputs and `ret' its return value; the other   *)
(* variables are the objects the call works on.  Return is the caller      *)
(* taking the result: its locals go away, the function-wide virtual        *)
(* register numbering stays.                                               *)
(***************************************************************************)
EXTENDS Integers, Sequences, FiniteSets, TLC

VARIABLES
    op,          \* the member function called last ("none" after construction)
    arg,         \* the inputs of that call
    ret,         \* its return value
    Base,        \* selectAddr's SDValue &Base
    Disp,        \* selectAddr's SDValue &Disp
    created,     \* the nodes the call added to CurDAG, in creation order
    GUOps,       \* operand list of the asm node's glued user
    NumVirtRegs, \* MachineRegisterInfo: number of virtual registers created
    asmLog,      \* history: the operand groups selectInlineAsm rewrote
    Fixups,      \* the emitter's SmallVectorImpl<MCFixup> &Fixups
    OS,          \* the emitter's raw_ostream &OS, as the bytes written to it
    Replaced,    \* the ReplaceUses calls of Select: from which value to which
    MemRefs,     \* the memory operands Select attached to created nodes
    Morphed      \* the machine node Select turned N into (SelectNodeTo)

dagVars == <<Replaced, MemRefs, Morphed>>

selectorVars == <<Base, Disp, created, GUOps, NumVirtRegs, asmLog, dagVars>>

emitterVars == <<Fixups, OS>>

vars == <<op, arg, ret, selectorVars, emitterVars>>

----------------------------------------------------------------------------
(* Bounds of the model.                                                    *)

\* constants 0..MaxOff appear as the right operand of an address
MaxOff == 65
\* so do the 16-bit constants 2^16 - MaxNegOff .. 2^16 - 1
MaxNegOff == 2
\* frame slots 0..MaxFI
MaxFI == 1
\* the offset of an indexed load is -MaxIndexOffs..MaxIndexOffs
MaxIndexOffs == 4
\* an asm node has at most MaxGroups operand groups
MaxGroups == 3
\* calls that would create more than MaxVirtRegs virtual registers are left out
MaxVirtRegs == 3

\* immediates range over -MaxImm .. MaxImm and a few larger values
MaxImm == 2

\* a call passes at most MaxCallArgs argument registers
MaxCallArgs == 2

----------------------------------------------------------------------------
(* Integer widths.                                                         *)

Pow2(n) == 2 ^ n

\* the value of v reduced to an unsigned integer of `bits' bits (bits < 31)
Trunc(v, bits) == v % Pow2(bits)

\* the signed value of the `bits'-bit pattern u
SExt(u, bits) == IF u >= Pow2(bits - 1) THEN u - Pow2(bits) ELSE u

BitsOf(vt) == CASE vt = "i8" -> 8 [] vt = "i16" -> 16 [] OTHER -> 30

----------------------------------------------------------------------------
(* SelectionDAG values.                                                    *)

NullSDValue == [opc |-> "null", val |-> 0, vt |-> "none"]

FrameIndex(fi)  == [opc |-> "FrameIndex", val |-> fi, vt |-> "i16"]
Constant(c)     == [opc |-> "Constant", val |-> c, vt |-> "i16"]
CopyFromReg(r)  == [opc |-> "CopyFromReg", val |-> r, vt |-> "i16"]

getTargetFrameIndex(fi) == [opc |-> "TargetFrameIndex", val |-> fi, vt |-> "i16"]

getTargetConstant(v, vt) ==
    [opc |-> "TargetConstant", val |-> Trunc(v, BitsOf(vt)), vt |-> vt]

\* an address: a leaf, or a binary node over two leaves
Leaf(v) == [opc |-> v.opc, val |-> v.val, op0 |-> NullSDValue,
            op1 |-> NullSDValue, disjoint |-> FALSE]
Binary(o, a, b, d) == [opc |-> o, val |-> 0, op0 |-> a, op1 |-> b,
                       disjoint |-> d]

\* llvm::isUInt<6>(uint64_t x): an int argument is converted to uint64_t, so
\* a negative one becomes x + 2^64, which is no 6-bit value
isUInt6(x) == x >= 0 /\ x < 64

\* SelectionDAG::isBaseWithConstantOffset: an ADD of a constant, or an OR of
\* a constant whose set bits are known to be zero in the other operand
isBaseWithConstantOffset(N) ==
    /\ N.opc \in {"ADD", "OR"}
    /\ N.op1.opc = "Constant"
    /\ (N.opc = "OR" => N.disjoint)

----------------------------------------------------------------------------
(* AVRDAGToDAGISel::selectAddr                                             *)

AddrResult(r, b, d) == [ret |-> r, Base |-> b, Disp |-> d]

\* the test of the 16-bit access, with the bound of the 8-bit access
RegOffsetFitsWide(VT, RHSC) ==
    \/ (VT = "i8" /\ isUInt6(RHSC))
    \/ (VT = "i16" /\ RHSC >= 0 /\ RHSC <= 63)

RegOffsetFits(VT, RHSC) ==
    \/ (VT = "i8" /\ isUInt6(RHSC))
    \/ (VT = "i16" /\ RHSC >= 0 /\ RHSC < 63)

IsFrameBase(N) == N.op0.opc = "FrameIndex"

\* the offset without the negation for SUB
OffsetOfUnsigned(N) == N.op1.val

\* the offset of a base+constant address: the constant, negated for SUB
\* (getZExtValue of a 16-bit constant is 0..65535, which (int) keeps)
OffsetOf(N) ==
    LET RHSC == N.op1.val
    IN  IF N.opc = "SUB" THEN -RHSC ELSE RHSC

selectAddr(VT, N, Base0, Disp0) ==
    IF N.opc = "FrameIndex"
    THEN AddrResult(TRUE, getTargetFrameIndex(N.val),
                    getTargetConstant(0, "i8"))
    ELSE IF N.opc # "ADD" /\ N.opc # "SUB" /\ ~isBaseWithConstantOffset(N)
    THEN AddrResult(FALSE, Base0, Disp0)
    ELSE IF N.op1.opc = "Constant"
    THEN LET RHSC == OffsetOf(N)
         IN  IF IsFrameBase(N)
             THEN AddrResult(TRUE, getTargetFrameIndex(N.op0.val),
                             getTargetConstant(RHSC, "i16"))
             ELSE IF RegOffsetFits(VT, RHSC)
             THEN AddrResult(TRUE, N.op0, getTargetConstant(RHSC, "i8"))
             ELSE AddrResult(FALSE, Base0, Disp0)
    ELSE AddrResult(FALSE, Base0, Disp0)

----------------------------------------------------------------------------
(* Graph values: an SDValue is result `r' of a node.  k = "in": node `id'  *)
(* of the graph before the call; k = "new": the id-th node the call        *)
(* created; k = "Register": the RegisterSDNode of register `id';           *)
(* k = "Constant": a (target) constant whose value is the flag word `flag';*)
(* k = "SubReg": the target constant of sub-register index `id'.           *)

\* the flag word of an inline-asm operand group, by bit field: kind is bits
\* 0-2, numRegs bits 3-15, high bits 16-30, matching bit 31
FlagWord(k, n, h, m) == [kind |-> k, numRegs |-> n, high |-> h, matching |-> m]

NoFlag == FlagWord(0, 0, 0, FALSE)

SDValue(k, id, r, vt) == [k |-> k, id |-> id, r |-> r, vt |-> vt, flag |-> NoFlag]

NoValue == SDValue("null", 0, 0, "none")

InRes(id, r, vt) == SDValue("in", id, r, vt)
NewRes(id, r, vt) == SDValue("new", id, r, vt)
getRegister(reg, vt) == SDValue("Register", reg, 0, vt)
FlagOperand(F) == [k |-> "Constant", id |-> 0, r |-> 0, vt |-> "i32", flag |-> F]
SubRegIndex(idx) == SDValue("SubReg", idx, 0, "i32")

\* a node: opcode, result types, operands
Node(o, vts, ops) == [opc |-> o, vts |-> vts, ops |-> ops]

\* the nodes of the graph before a call: the node being selected, its base
\* pointer, the node its chain operand comes from and its glued user
NodeN == 1
NodePtr == 2
NodeChain == 3
NodeGU == 4

----------------------------------------------------------------------------
(* AVRDAGToDAGISel::selectIndexedLoad, selectIndexedProgMemLoad            *)

\* a load: extension type, addressing mode, memory type, constant offset
LoadSDNode(ext, am, vt, offs) ==
    [ext |-> ext, AM |-> am, VT |-> vt, Offs |-> offs,
     BasePtr |-> InRes(NodePtr, 0, "i16"), Chain |-> InRes(NodeChain, 0, "Other")]

\* the offset test of the 8-bit access applied to every width
IndexedOffsetOkByte(VT, isPre, Offs) ==
    ~((~isPre /\ Offs # 1) \/ (isPre /\ Offs # -1))

\* the offset is the access width, negative for pre-decrement (the switch on
\* VT.SimpleTy; FALSE is its `return 0')
IndexedOffsetOk(VT, isPre, Offs) ==
    CASE VT = "i8"  -> ~((~isPre /\ Offs # 1) \/ (isPre /\ Offs # -1))
      [] VT = "i16" -> ~((~isPre /\ Offs # 2) \/ (isPre /\ Offs # -2))
      [] OTHER -> FALSE

IndexedLoadOpcode(VT, isPre) ==
    IF VT = "i8" THEN (IF isPre THEN "LDRdPtrPd" ELSE "LDRdPtrPi")
                 ELSE (IF isPre THEN "LDWRdPtrPd" ELSE "LDWRdPtrPi")

\* the machine node is created before the offset is tested
selectIndexedLoadEager(LD) ==
    IF LD.ext # "NON_EXTLOAD" \/ (LD.AM # "POST_INC" /\ LD.AM # "PRE_DEC")
    THEN [ret |-> 0, created |-> <<>>]
    ELSE LET isPre == (LD.AM = "PRE_DEC")
             New == Node(IndexedLoadOpcode(LD.VT, isPre),
                         <<LD.VT, "i16", "Other">>, <<LD.BasePtr, LD.Chain>>)
         IN  [ret |-> IF IndexedOffsetOk(LD.VT, isPre, LD.Offs) THEN 1 ELSE 0,
              created |-> <<New>>]

\* the result is [ret, created]: ret is the index in `created' of the node
\* returned, 0 for a null pointer
selectIndexedLoad(LD) ==
    IF LD.ext # "NON_EXTLOAD" \/ (LD.AM # "POST_INC" /\ LD.AM # "PRE_DEC")
    THEN [ret |-> 0, created |-> <<>>]
    ELSE LET isPre == (LD.AM = "PRE_DEC")
         IN  IF ~IndexedOffsetOk(LD.VT, isPre, LD.Offs)
             THEN [ret |-> 0, created |-> <<>>]
             ELSE [ret |-> 1,
                   created |-> <<Node(IndexedLoadOpcode(LD.VT, isPre),
                                      <<LD.VT, "i16", "Other">>,
                                      <<LD.BasePtr, LD.Chain>>)>>]

\* the mode test accepting pre-decrement as well
ProgMemModeOkAnyIndexed(LD) ==
    ~(LD.ext # "NON_EXTLOAD" \/ (LD.AM # "POST_INC" /\ LD.AM # "PRE_DEC"))

ProgMemModeOk(LD) == ~(LD.ext # "NON_EXTLOAD" \/ LD.AM # "POST_INC")

\* the opcode, "0" for no match
selectIndexedProgMemLoad(LD, VT) ==
    IF ~ProgMemModeOk(LD)
    THEN "0"
    ELSE CASE VT = "i8"  -> IF LD.Offs # 1 THEN "0" ELSE "LPMRdZPi"
           [] VT = "i16" -> IF LD.Offs # 2 THEN "0" ELSE "LPMWRdZPi"
           [] OTHER -> "0"

----------------------------------------------------------------------------
(* Inline-asm operand lists (llvm/IR/InlineAsm.h).                         *)

Op_InputChain == 0
Op_FirstOperand == 4

Kind_RegUse == 1
Kind_RegDef == 2
Kind_RegDefEarlyClobber == 3
Kind_Clobber == 4
Kind_Imm == 5
Kind_Mem == 6

\* register class ids of the target description
GPR8RegClassID == 1
DREGSRegClassID == 2
GPR8QuadRegClassID == 3

getKind(Flag) == Flag.kind
getNumOperandRegisters(Flag) == Flag.numRegs
getFlagWord(Kind, NumOps) == FlagWord(Kind, NumOps, 0, FALSE)
getFlagWordForMatchingOp(InputFlag, MatchedOperandNo) ==
    [InputFlag EXCEPT !.matching = TRUE, !.high = MatchedOperandNo]
getFlagWordForRegClass(InputFlag, RC) == [InputFlag EXCEPT !.high = RC + 1]
isUseOperandTiedToDef(Flag) == Flag.matching
TiedDefIdx(Flag) == IF Flag.matching THEN Flag.high ELSE 0
hasRegClassConstraint(Flag) == ~Flag.matching /\ Flag.high # 0
RegClassOf(Flag) == Flag.high - 1

\* MachineRegisterInfo::createVirtualRegister: the n-th virtual register
index2VirtReg(n) == 1000 + n

\* SelectionDAG node builders
getCopyFromReg(Chain, Reg, VT, Glue) ==
    Node("CopyFromReg", <<VT, "Other", "Glue">>,
         <<Chain, getRegister(Reg, VT), Glue>>)
getCopyToReg(Chain, Reg, N, Glue) ==
    Node("CopyToReg", <<"Other", "Glue">>,
         <<Chain, getRegister(Reg, N.vt), N, Glue>>)
getTargetExtractSubreg(SRIdx, VT, Operand) ==
    Node("EXTRACT_SUBREG", <<VT>>, <<Operand, SubRegIndex(SRIdx)>>)

----------------------------------------------------------------------------
(* AVRDAGToDAGISel::createGPR8QuadNode, selectInlineAsm                    *)

createGPR8QuadNode(VT, V0, V1, V2, V3) ==
    Node("REG_SEQUENCE", <<VT>>,
         <<SDValue("RegClass", GPR8QuadRegClassID, 0, "i8"),
           V0, SubRegIndex(0), V1, SubRegIndex(1),
           V2, SubRegIndex(2), V3, SubRegIndex(3)>>)

\* operand i of the node (0-based, as N->getOperand(i))
getOperand(N, i) == N.ops[i + 1]

getNumOperands(N) == Len(N.ops)

\* N->getGluedNode(): the last operand is a glue value
hasGluedNode(N) == N.ops[Len(N.ops)].vt = "Glue"

\* the locals of selectInlineAsm at the head of the loop, with the objects it
\* changes: `log' lists the groups rewritten so far
AsmState(N, nvr, GU) ==
    [i |-> 0,
     AsmNodeOperands |-> <<>>,
     OpChanged |-> <<>>,
     Changed |-> FALSE,
     Glue |-> IF hasGluedNode(N) THEN getOperand(N, getNumOperands(N) - 1)
              ELSE NoValue,
     created |-> <<>>,
     GUOps |-> GU,
     NumVirtRegs |-> nvr,
     log |-> <<>>]

\* `i += 4' at the end of a rewritten group
SkipAfterGroup == 4

\* both values extracted from sub-register 0
ExtractPairSame(RegCopy) ==
    <<getTargetExtractSubreg(0, "i8", RegCopy),
      getTargetExtractSubreg(0, "i8", RegCopy)>>

\* Sub0 and Sub1: sub-registers qsub_0 and qsub_1 of the composite value
ExtractPair(RegCopy) ==
    <<getTargetExtractSubreg(0, "i8", RegCopy),
      getTargetExtractSubreg(1, "i8", RegCopy)>>

\* Kind_RegDef / Kind_RegDefEarlyClobber (lines 417-443)
RewriteDef(N, st, Reg0, Reg1) ==
    LET GPVR == index2VirtReg(st.NumVirtRegs)
        Chain == InRes(NodeN, 0, "Other")
        c == Len(st.created)
        RegCopyN == getCopyFromReg(Chain, GPVR, "Untyped", InRes(NodeN, 1, "Glue"))
        RegCopy == NewRes(c + 1, 0, "Untyped")
        Sub0N == ExtractPair(RegCopy)[1]
        Sub0 == NewRes(c + 2, 0, "i8")
        Sub1N == ExtractPair(RegCopy)[2]
        Sub1 == NewRes(c + 3, 0, "i8")
        T0N == getCopyToReg(Sub0, Reg0, Sub0, NewRes(c + 1, 1, "Other"))
        T1N == getCopyToReg(Sub1, Reg1, Sub1, NewRes(c + 4, 1, "Glue"))
    IN  [st EXCEPT
            !.NumVirtRegs = @ + 1,
            !.created = @ \o <<RegCopyN, Sub0N, Sub1N, T0N, T1N>>,
            !.GUOps = SubSeq(@, 1, Len(@) - 1) \o <<NewRes(c + 5, 1, "Glue")>>]

\* Kind_RegUse (lines 444-464)
RewriteUse(N, st, Reg0, Reg1) ==
    LET Chain == st.AsmNodeOperands[Op_InputChain + 1]
        c == Len(st.created)
        T0N == getCopyFromReg(Chain, Reg0, "i8",
                              [Chain EXCEPT !.r = 1, !.vt = "Glue"])
        T0 == NewRes(c + 1, 0, "i8")
        T1N == getCopyFromReg(Chain, Reg1, "i8", NewRes(c + 1, 1, "Other"))
        T1 == NewRes(c + 2, 0, "i8")
        QuadN == createGPR8QuadNode("Untyped", T0, T1, T1, T1)
        Quad == NewRes(c + 3, 0, "Untyped")
        GPVR == index2VirtReg(st.NumVirtRegs)
        ChainN == getCopyToReg(T1, GPVR, Quad, NewRes(c + 2, 1, "Other"))
    IN  [st EXCEPT
            !.NumVirtRegs = @ + 1,
            !.created = @ \o <<T0N, T1N, QuadN, ChainN>>,
            !.AsmNodeOperands[Op_InputChain + 1] = NewRes(c + 4, 0, "Other"),
            !.Glue = NewRes(c + 4, 1, "Glue")]

\* the flag word keeps the register count of the original group
RewrittenFlagTwoRegs(Kind, IsTiedToChangedOp, DefIdx) ==
    IF IsTiedToChangedOp
    THEN getFlagWordForMatchingOp(getFlagWord(Kind, 2), DefIdx)
    ELSE getFlagWordForRegClass(getFlagWord(Kind, 2), GPR8QuadRegClassID)

\* the flag word of a rewritten group (lines 468-472)
RewrittenFlag(Kind, IsTiedToChangedOp, DefIdx) ==
    IF IsTiedToChangedOp
    THEN getFlagWordForMatchingOp(getFlagWord(Kind, 1), DefIdx)
    ELSE getFlagWordForRegClass(getFlagWord(Kind, 1), GPR8QuadRegClassID)

\* the group is left alone whatever its register class
NotAPairAnyClass(IsTiedToChangedOp, Flag) == getNumOperandRegisters(Flag) # 2

\* the group is left alone: it is no group of two GPR8 registers, nor a
\* two-register use tied to a rewritten def (lines 403-407)
NotAPair(IsTiedToChangedOp, Flag) ==
    \/ (~IsTiedToChangedOp
        /\ (~hasRegClassConstraint(Flag) \/ RegClassOf(Flag) # GPR8RegClassID))
    \/ getNumOperandRegisters(Flag) # 2

\* one iteration of the loop body (lines 366-481), the ++i of the loop
\* included; oob is the value an out-of-range read of OpChanged yields
AsmLoopBody(N, st, oob) ==
    LET i == st.i
        opnd == getOperand(N, i)
        pushed == [st EXCEPT !.AsmNodeOperands = Append(@, opnd)]
        continue(t) == [t EXCEPT !.i = @ + 1]
        Flag == opnd.flag
        Kind == getKind(Flag)
        NumRegs == getNumOperandRegisters(Flag)
        counted == IF NumRegs # 0
                   THEN [pushed EXCEPT !.OpChanged = Append(@, FALSE)]
                   ELSE pushed
        DefIdx == TiedDefIdx(Flag)
        IsTiedToChangedOp ==
            IF st.Changed /\ isUseOperandTiedToDef(Flag)
            THEN (IF DefIdx < Len(counted.OpChanged)
                  THEN counted.OpChanged[DefIdx + 1] ELSE oob)
            ELSE FALSE
        Reg0 == getOperand(N, i + 1).id
        Reg1 == getOperand(N, i + 2).id
        isDef == Kind = Kind_RegDef \/ Kind = Kind_RegDefEarlyClobber
        rewritten == IF isDef THEN RewriteDef(N, counted, Reg0, Reg1)
                     ELSE RewriteUse(N, counted, Reg0, Reg1)
        GPVR == index2VirtReg(counted.NumVirtRegs)
        Flag2 == RewrittenFlag(Kind, IsTiedToChangedOp, DefIdx)
    IN  IF i < Op_FirstOperand THEN continue(pushed)
        ELSE IF opnd.k # "Constant" THEN continue(pushed)
        ELSE IF Kind = Kind_Imm
        THEN continue([pushed EXCEPT
                          !.i = @ + 1,
                          !.AsmNodeOperands = Append(@, getOperand(N, i + 1))])
        ELSE IF Kind # Kind_RegUse /\ Kind # Kind_RegDef
                /\ Kind # Kind_RegDefEarlyClobber
        THEN continue(counted)
        ELSE IF NotAPair(IsTiedToChangedOp, Flag)
        THEN continue(counted)
        ELSE continue([rewritten EXCEPT
                 !.Changed = TRUE,
                 !.OpChanged[Len(counted.OpChanged)] = TRUE,
                 !.AsmNodeOperands =
                     Append([@ EXCEPT ![Len(@)] = FlagOperand(Flag2)],
                            getRegister(GPVR, "Untyped")),
                 !.log = Append(@, [i |-> i, Kind |-> Kind, GPVR |-> GPVR,
                                    tied |-> IsTiedToChangedOp]),
                 !.i = @ + SkipAfterGroup])

RECURSIVE AsmLoop(_, _, _)
AsmLoop(N, st, oob) ==
    LET e == IF hasGluedNode(N) THEN getNumOperands(N) - 1
             ELSE getNumOperands(N)
    IN  IF st.i < e THEN AsmLoop(N, AsmLoopBody(N, st, oob), oob) ELSE st

\* the result: ret is the index in `created' of the node returned, 0 for a
\* null pointer
selectInlineAsm(N, nvr, GU, oob) ==
    LET st == AsmLoop(N, AsmState(N, nvr, GU), oob)
        AsmNodeOperands == IF st.Glue # NoValue
                           THEN Append(st.AsmNodeOperands, st.Glue)
                           ELSE st.AsmNodeOperands
        New == Node("INLINEASM", <<"Other", "Glue">>, AsmNodeOperands)
    IN  IF ~st.Changed
        THEN [ret |-> 0, created |-> st.created, GUOps |-> st.GUOps,
              NumVirtRegs |-> st.NumVirtRegs, log |-> st.log]
        ELSE [ret |-> Len(st.created) + 1,
              created |-> Append(st.created, New), GUOps |-> st.GUOps,
              NumVirtRegs |-> st.NumVirtRegs, log |-> st.log]

----------------------------------------------------------------------------
(* Inputs.                                                                 *)

MemVTs == {"i8", "i16", "i32"}

ConstVals == (0 .. MaxOff) \cup ((Pow2(16) - MaxNegOff) .. (Pow2(16) - 1))

BaseLeaves == {FrameIndex(fi) : fi \in 0 .. MaxFI}
                  \cup {CopyFromReg(r) : r \in {"v0", "v1"}}

OffsetLeaves == {Constant(c) : c \in ConstVals} \cup {CopyFromReg("v1")}

AddrNodes ==
    {Leaf(v) : v \in BaseLeaves}
        \cup {Binary(o, a, b, FALSE) :
                  o \in {"ADD", "SUB", "OR", "XOR"}, a \in BaseLeaves,
                  b \in OffsetLeaves}
        \cup {Binary("OR", a, b, TRUE) : a \in BaseLeaves, b \in OffsetLeaves}

ExtensionTypes == {"NON_EXTLOAD", "EXTLOAD", "SEXTLOAD", "ZEXTLOAD"}

MemIndexedModes == {"UNINDEXED", "PRE_INC", "PRE_DEC", "POST_INC", "POST_DEC"}

Loads == {LoadSDNode(e, am, vt, o) :
              e \in ExtensionTypes, am \in MemIndexedModes, vt \in MemVTs,
              o \in (0 - MaxIndexOffs) .. MaxIndexOffs}

\* the operands of one group; its registers are numbered after its place j
GroupKinds == {"def2", "ec2", "use2", "tied2", "use1", "def2d", "imm", "clob"}

GroupReg(j, n) == getRegister(2 * j + n, "i8")

\* an immediate whose value reads as the flag word of a two-register def
ImmValue == FlagOperand(FlagWord(Kind_RegDef, 2, GPR8RegClassID + 1, FALSE))

Group(kind, j) ==
    CASE kind = "def2" ->
           <<FlagOperand(FlagWord(Kind_RegDef, 2, GPR8RegClassID + 1, FALSE)),
             GroupReg(j, 0), GroupReg(j, 1)>>
      [] kind = "ec2" ->
           <<FlagOperand(FlagWord(Kind_RegDefEarlyClobber, 2,
                                  GPR8RegClassID + 1, FALSE)),
             GroupReg(j, 0), GroupReg(j, 1)>>
      [] kind = "use2" ->
           <<FlagOperand(FlagWord(Kind_RegUse, 2, GPR8RegClassID + 1, FALSE)),
             GroupReg(j, 0), GroupReg(j, 1)>>
      [] kind = "tied2" ->
           <<FlagOperand(FlagWord(Kind_RegUse, 2, 0, TRUE)),
             GroupReg(j, 0), GroupReg(j, 1)>>
      [] kind = "use1" ->
           <<FlagOperand(FlagWord(Kind_RegUse, 1, GPR8RegClassID + 1, FALSE)),
             GroupReg(j, 0)>>
      [] kind = "def2d" ->
           <<FlagOperand(FlagWord(Kind_RegDef, 2, DREGSRegClassID + 1, FALSE)),
             GroupReg(j, 0), GroupReg(j, 1)>>
      [] kind = "imm" ->
           <<FlagOperand(FlagWord(Kind_Imm, 1, 0, FALSE)), ImmValue>>
      [] kind = "clob" ->
           <<FlagOperand(FlagWord(Kind_Clobber, 1, 0, FALSE)), GroupReg(j, 0)>>

RECURSIVE GroupOperands(_, _)
GroupOperands(kinds, j) ==
    IF j > Len(kinds) THEN <<>>
    ELSE Group(kinds[j], j) \o GroupOperands(kinds, j + 1)

\* the four leading operands: input chain, asm string, metadata, extra info
AsmHeader ==
    <<InRes(NodeChain, 0, "Other"), SDValue("ExternalSymbol", 0, 0, "i16"),
      SDValue("MDNode", 0, 0, "Other"), SDValue("ExtraInfo", 0, 0, "i16")>>

GlueIn == InRes(NodeChain, 1, "Glue")

AsmNode(kinds, glued) ==
    Node("INLINEASM", <<"Other", "Glue">>,
         AsmHeader \o GroupOperands(kinds, 1)
             \o (IF glued THEN <<GlueIn>> ELSE <<>>))

GroupLists == UNION {[1 .. n -> GroupKinds] : n \in 0 .. MaxGroups}

\* the glued user: a CopyFromReg of an asm output, chained and glued to N
GluedUserOps ==
    <<InRes(NodeN, 0, "Other"), getRegister(2, "i8"), InRes(NodeN, 1, "Glue")>>

HasDefGroup(kinds) ==
    \E j \in 1 .. Len(kinds) : kinds[j] \in {"def2", "ec2", "def2d"}

\* what the caller's Base and Disp hold before the call
PriorValues == {NullSDValue, getTargetConstant(99, "i8")}

----------------------------------------------------------------------------
(* AVRDAGToDAGISel::Select                                                 *)

\* physical registers of the target description
SP == 32
R31R30 == 30

\* further nodes of the graph before a call: the node of a stored value or
\* of a callee, and the nodes of call arguments
NodeVal == 5
NodeArg == 6

\* a node a pointer operand refers to: its opcode and its operands
PtrNode(opc, ops) == [opc |-> opc, ops |-> ops]

NoPtrNode == PtrNode("none", <<>>)

NoNode == Node("none", <<>>, <<>>)

\* ConstantSDNode / TargetConstant as an operand value
ConstantValue(c, vt) == SDValue("Constant", c, 0, vt)
TargetConstantValue(c, vt) == SDValue("TargetConstant", Trunc(c, BitsOf(vt)), 0, vt)
TargetFrameIndexValue(fi, vt) == SDValue("TargetFrameIndex", fi, 0, vt)

\* the node handed to Select: opcode, isMachineOpcode, result types,
\* operands, and for memory nodes the extension type, addressing mode, memory
\* type, constant offset, the address space of the memory operand's IR value
\* (-1: no value), the node of the base pointer and the memory operand;
\* FrameIndex nodes carry their index in Offs
SDNode(opc, machine, vts, ops, ext, am, vt, offs, as, BasePtr, mmo) ==
    [opc |-> opc, machine |-> machine, vts |-> vts, ops |-> ops,
     ext |-> ext, AM |-> am, VT |-> vt, Offs |-> offs, addrSpace |-> as,
     BasePtr |-> BasePtr, mmo |-> mmo]

\* a node without memory access
PlainSDNode(opc, machine, vts, ops) ==
    SDNode(opc, machine, vts, ops, "NON_EXTLOAD", "UNINDEXED", "none", 0, 0 - 1,
           NoPtrNode, 0)

\* the type of result r of a node with result types vts; "none" if the node
\* has no such result
ResVT(vts, r) == IF r < Len(vts) THEN vts[r + 1] ELSE "none"

\* one ReplaceUses(SDValue(N, r), SDValue(ResNode, r2)), ResNode being the
\* idx-th node created
ReplaceUses(N, r, ResNode, idx, r2) ==
    [from |-> InRes(NodeN, r, ResVT(N.vts, r)),
     to |-> NewRes(idx, r2, ResVT(ResNode.vts, r2))]

\* cast<LoadSDNode>(N)
AsLoadSDNode(N) == LoadSDNode(N.ext, N.AM, N.VT, N.Offs)

\* what one call of Select leaves behind: the node returned (index in
\* `created', 0 for null, or the result of SelectCode when generic), the nodes
\* created, the uses replaced, the memory operands attached, the node N was
\* morphed into, and the state selectInlineAsm works on
SelectResult(res, generic, nodes, replaced, memrefs, morphed, GU, nvr, log) ==
    [ret |-> res, generic |-> generic, created |-> nodes,
     Replaced |-> replaced, MemRefs |-> memrefs, Morphed |-> morphed,
     GUOps |-> GU, NumVirtRegs |-> nvr, log |-> log]

\* `break' out of the switch: SelectCode(N), lines 705-719
SelectCode(GU, nvr) ==
    SelectResult(0, TRUE, <<>>, <<>>, <<>>, NoNode, GU, nvr, <<>>)

\* the node is returned, nothing else of the asm state changes
Selected(res, nodes, replaced, memrefs, GU, nvr) ==
    SelectResult(res, FALSE, nodes, replaced, memrefs, NoNode, GU, nvr, <<>>)

\* case ISD::FrameIndex, lines 525-536
SelectFrameIndex(N, GU, nvr) ==
    LET TFI == TargetFrameIndexValue(N.Offs, "i16")
    IN  SelectResult(0, FALSE, <<>>, <<>>, <<>>,
                     Node("FRMIDX", <<"i16">>,
                          <<TFI, TargetConstantValue(0, "i16")>>),
                     GU, nvr, <<>>)

\* the store is intercepted whatever register the base pointer starts with
StoreInterceptedAnyReg(BasePtr) ==
    /\ ~(BasePtr.opc = "FrameIndex" \/ BasePtr.opc = "Constant")
    /\ BasePtr.ops[1].k = "Register"

\* neither early exit of the store case is taken, lines 545-555
StoreIntercepted(BasePtr) ==
    /\ ~(BasePtr.opc = "FrameIndex" \/ BasePtr.opc = "Constant")
    /\ BasePtr.ops[1].k = "Register" /\ BasePtr.ops[1].id = SP

\* case ISD::STORE, lines 537-575
SelectStore(N, GU, nvr) ==
    LET BasePtr == N.BasePtr
        CST == BasePtr.ops[2].id
        Chain == getOperand(N, 0)
        StoredVal == getOperand(N, 1)
        Offset == TargetConstantValue(CST, "i16")
        Ops == <<BasePtr.ops[1], Offset, StoredVal, Chain>>
        Opc == IF StoredVal.vt = "i16" THEN "STDWSPQRr" ELSE "STDSPQRr"
        ResNode == Node(Opc, <<"Other">>, Ops)
    IN  IF ~StoreIntercepted(BasePtr) THEN SelectCode(GU, nvr)
        ELSE Selected(1, <<ResNode>>, <<ReplaceUses(N, 0, ResNode, 1, 0)>>,
                      <<[node |-> 1, mmo |-> N.mmo]>>, GU, nvr)

\* the load reads program memory, line 580
IsProgMemLoad(N) == N.addrSpace # 0 - 1 /\ N.addrSpace = 1

\* the flash-memory branch of case ISD::LOAD, lines 581-630
SelectProgMemLoad(N, GU, nvr) ==
    LET LD == AsLoadSDNode(N)
        VT == LD.VT
        Chain1N == getCopyToReg(LD.Chain, R31R30, LD.BasePtr, NoValue)
        Chain1 == NewRes(1, 0, "Other")
        PtrN == getCopyFromReg(Chain1, R31R30, "i16", NewRes(1, 1, "Glue"))
        Ptr == NewRes(2, 0, "i16")
        PtrOps == <<Ptr, NewRes(2, 1, "Other")>>
        LPMOpc == selectIndexedProgMemLoad(LD, VT)
        ResNode == IF LPMOpc # "0"
                   THEN Node(LPMOpc, <<VT, "i16", "Other">>, PtrOps)
                   ELSE IF VT = "i8"
                   THEN Node("LPMRdZ", <<"i8", "Other">>, PtrOps)
                   ELSE Node("LPMWRdZ", <<"i16", "i16", "Other">>, PtrOps)
        first == IF LPMOpc # "0" \/ VT = "i16"
                 THEN <<ReplaceUses(N, 2, ResNode, 3, 2)>>
                 ELSE <<>>
    IN  Selected(3, <<Chain1N, PtrN, ResNode>>,
                 first \o <<ReplaceUses(N, 0, ResNode, 3, 0),
                            ReplaceUses(N, 1, ResNode, 3, 1)>>,
                 <<[node |-> 3, mmo |-> N.mmo]>>, GU, nvr)

\* case ISD::LOAD, lines 576-639
SelectLoad(N, GU, nvr) ==
    LET r == selectIndexedLoad(AsLoadSDNode(N))
    IN  IF IsProgMemLoad(N) THEN SelectProgMemLoad(N, GU, nvr)
        ELSE IF r.ret # 0
        THEN Selected(r.ret, r.created, <<>>, <<>>, GU, nvr)
        ELSE SelectCode(GU, nvr)

\* every call is taken as a direct one
IsDirectCallAlways(Callee) == TRUE

\* the callee is a direct symbol reference, lines 650-651
IsDirectCall(Callee) ==
    Callee.k = "TargetGlobalAddress" \/ Callee.k = "TargetExternalSymbol"

\* case AVRISD::CALL, lines 640-681
SelectCall(N, GU, nvr) ==
    LET Chain == getOperand(N, 0)
        Callee == getOperand(N, 1)
        LastOpNum0 == getNumOperands(N) - 1
        LastOpNum == IF getOperand(N, LastOpNum0).vt = "Glue"
                     THEN LastOpNum0 - 1 ELSE LastOpNum0
        Chain1N == getCopyToReg(Chain, R31R30, Callee, NoValue)
        Ops == <<getRegister(R31R30, "i16")>>
                   \o [k \in 1 .. LastOpNum - 1 |-> getOperand(N, k + 1)]
                   \o <<NewRes(1, 0, "Other"), NewRes(1, 1, "Glue")>>
        ResNode == Node("ICALL", <<"Other", "Glue">>, Ops)
    IN  IF IsDirectCall(Callee) THEN SelectCode(GU, nvr)
        ELSE Selected(2, <<Chain1N, ResNode>>,
                      <<ReplaceUses(N, 0, ResNode, 2, 0),
                        ReplaceUses(N, 1, ResNode, 2, 1)>>, <<>>, GU, nvr)

\* getCopyToReg without a glue result, as BRIND uses it
getCopyToRegNoGlue(Chain, Reg, V) ==
    Node("CopyToReg", <<"Other">>, <<Chain, getRegister(Reg, V.vt), V>>)

\* case ISD::BRIND, lines 682-694
SelectBrind(N, GU, nvr) ==
    LET Chain == getOperand(N, 0)
        JmpAddr == getOperand(N, 1)
        Chain1N == getCopyToRegNoGlue(Chain, R31R30, JmpAddr)
        ResNode == Node("IJMP", <<"Other">>, <<NewRes(1, 0, "Other")>>)
    IN  Selected(2, <<Chain1N, ResNode>>,
                 <<ReplaceUses(N, 0, ResNode, 2, 0)>>, <<>>, GU, nvr)

\* case ISD::INLINEASM, lines 695-701
SelectAsm(N, GU, nvr, oob) ==
    LET r == selectInlineAsm(N, nvr, GU, oob)
    IN  IF r.ret # 0
        THEN SelectResult(r.ret, FALSE, r.created, <<>>, <<>>, NoNode,
                          r.GUOps, r.NumVirtRegs, r.log)
        ELSE SelectResult(0, TRUE, r.created, <<>>, <<>>, NoNode,
                          r.GUOps, r.NumVirtRegs, r.log)

Select(N, GU, nvr, oob) ==
    IF N.machine
    THEN SelectResult(0, FALSE, <<>>, <<>>, <<>>, NoNode, GU, nvr, <<>>)
    ELSE CASE N.opc = "FrameIndex" -> SelectFrameIndex(N, GU, nvr)
           [] N.opc = "STORE" -> SelectStore(N, GU, nvr)
           [] N.opc = "LOAD" -> SelectLoad(N, GU, nvr)
           [] N.opc = "CALL" -> SelectCall(N, GU, nvr)
           [] N.opc = "BRIND" -> SelectBrind(N, GU, nvr)
           [] N.opc = "INLINEASM" -> SelectAsm(N, GU, nvr, oob)
           [] OTHER -> SelectCode(GU, nvr)

----------------------------------------------------------------------------
(* The machine-code emitter, AVRMCCodeEmitter.cpp.                         *)
(* An `unsigned` is kept as its two 16-bit halves <<low, high>>, a         *)
(* uint64_t as its four 16-bit words, least significant first.             *)

\* bits lo .. lo+w-1 of the two's-complement integer v
Bits(v, lo, w) == (v \div Pow2(lo)) % Pow2(w)

\* an integer converted to `unsigned`: its low 32 bits
Unsigned(v) == <<Bits(v, 0, 16), Bits(v, 16, 16)>>

\* bits lo .. lo+w-1 of an `unsigned`; no field piece crosses bit 16
UBits(u, lo, w) == IF lo >= 16 THEN Bits(u[2], lo - 16, w) ELSE Bits(u[1], lo, w)

\* MCExpr: a Binary expression carries the description of its left operand
MCExpr(kind, lhsKind, foldable, value, fixupKind) ==
    [kind |-> kind, lhsKind |-> lhsKind, foldable |-> foldable,
     value |-> value, fixupKind |-> fixupKind]

NoExpr == MCExpr("None", "None", FALSE, 0, "none")

getLHS(Expr) ==
    MCExpr(Expr.lhsKind, "None", Expr.foldable, Expr.value, Expr.fixupKind)

\* MCOperand
MCOperand(kind, reg, imm, expr) ==
    [kind |-> kind, reg |-> reg, imm |-> imm, expr |-> expr]

createReg(reg) == MCOperand("reg", reg, 0, NoExpr)

createImm(imm) == MCOperand("imm", "", imm, NoExpr)

\* the operand holds the high 32 bits of the double's bit pattern
createFPImm(hi) == MCOperand("fpimm", "", hi, NoExpr)

createExpr(expr) == MCOperand("expr", "", 0, expr)

MCInst(opcode, ops) == [opcode |-> opcode, ops |-> ops]

MCFixup(offset, value, kind) == [Offset |-> offset, Value |-> value, Kind |-> kind]

\* what an operand encoder hands back: the field value and the fixup list
Encoded(val, fx) == [val |-> val, Fixups |-> fx]

getEncodingValue(reg) ==
    CASE reg = "R0" -> 0
      [] reg = "R16" -> 16
      [] reg = "R17" -> 17
      [] reg = "R31" -> 31
      [] reg = "R27R26" -> 26
      [] reg = "R29R28" -> 28
      [] reg = "R31R30" -> 30

\* the fixed adjustment of a constant branch target: the instruction word the
\* program counter has already advanced over
adjustBranchTarget(target) == target - 1

isRegXFirstOnly(MI) == getOperand(MI, 0).reg = "R27R26"

isRegX(MI) ==
    \/ getOperand(MI, 0).reg = "R27R26"
    \/ getOperand(MI, 1).reg = "R27R26"

isPredec(opcode) == opcode \in {"LDRdPtrPd", "STPtrPdRr"}

isPostinc(opcode) == opcode \in {"LDRdPtrPi", "STPtrPiRr"}

\* EncodedValue |= (1 << 12)
SetBit12(u) == IF Bits(u[1], 12, 1) = 1 THEN u ELSE <<u[1] + Pow2(12), u[2]>>

loadStorePostEncoder(MI, EncodedValue) ==
    IF isRegX(MI) \/ isPredec(MI.opcode) \/ isPostinc(MI.opcode)
    THEN SetBit12(EncodedValue)
    ELSE EncodedValue

encodeRelCondBrTarget(Fixup, MI, OpNo, Fx) ==
    LET MO == getOperand(MI, OpNo)
    IN  IF MO.kind = "expr"
        THEN Encoded(Unsigned(0), Append(Fx, MCFixup(0, MO.expr, Fixup)))
        ELSE Encoded(Unsigned(adjustBranchTarget(MO.imm)), Fx)

encodeLDSTPtrReg(MI, OpNo, Fx) ==
    LET MO == getOperand(MI, OpNo)
    IN  Encoded(Unsigned(CASE MO.reg = "R27R26" -> 3
                           [] MO.reg = "R29R28" -> 2
                           [] MO.reg = "R31R30" -> 0), Fx)

\* (RegBit << 6) | OffsetBits, OffsetBits promoted from int8_t to int
OrRegBit(RegBit, OffsetBits) ==
    IF RegBit = 1 /\ Bits(OffsetBits, 6, 1) = 0 THEN OffsetBits + 64
    ELSE OffsetBits

encodeMemri(MI, OpNo, Fx) ==
    LET RegOp == getOperand(MI, OpNo)
        OffsetOp == getOperand(MI, OpNo + 1)
        RegBit == CASE RegOp.reg = "R31R30" -> 0 [] RegOp.reg = "R29R28" -> 1
    IN  IF OffsetOp.kind = "imm"
        THEN Encoded(Unsigned(OrRegBit(RegBit, SExt(Trunc(OffsetOp.imm, 8), 8))),
                     Fx)
        ELSE Encoded(Unsigned(OrRegBit(RegBit, 0)),
                     Append(Fx, MCFixup(0, OffsetOp.expr, "fixup_6")))

encodeComplementNegate(MI, OpNo, Fx) ==
    Encoded(Unsigned(0 - getOperand(MI, OpNo).imm), Fx)

\* (~0) - imm
encodeComplement(MI, OpNo, Fx) ==
    Encoded(Unsigned((0 - 1) - getOperand(MI, OpNo).imm), Fx)

getExprOpValue(Expr0, Fx) ==
    LET Expr == IF Expr0.kind = "Binary" THEN getLHS(Expr0) ELSE Expr0
    IN  IF Expr.kind = "Target"
        THEN IF Expr.foldable
             THEN Encoded(Unsigned(Expr.value), Fx)
             ELSE Encoded(Unsigned(0),
                          Append(Fx, MCFixup(0, Expr, Expr.fixupKind)))
        ELSE Encoded(Unsigned(0), Fx)

encodeImm(Fixup, MI, OpNo, Fx) ==
    LET MO == getOperand(MI, OpNo)
    IN  IF MO.kind = "expr"
        THEN IF MO.expr.kind = "Target"
             THEN getExprOpValue(MO.expr, Fx)
             ELSE Encoded(Unsigned(0), Append(Fx, MCFixup(0, MO.expr, Fixup)))
        ELSE Encoded(Unsigned(MO.imm), Fx)

encodeCallTargetRaw(MI, OpNo, Fx) ==
    LET MO == getOperand(MI, OpNo)
    IN  IF MO.kind = "expr"
        THEN Encoded(Unsigned(0), Append(Fx, MCFixup(0, MO.expr, "fixup_call")))
        ELSE Encoded(Unsigned(MO.imm), Fx)

encodeCallTarget(MI, OpNo, Fx) ==
    LET MO == getOperand(MI, OpNo)
    IN  IF MO.kind = "expr"
        THEN Encoded(Unsigned(0), Append(Fx, MCFixup(0, MO.expr, "fixup_call")))
        ELSE Encoded(Unsigned(adjustBranchTarget(MO.imm)), Fx)

getMachineOpValue(MI, MO, Fx) ==
    IF MO.kind = "reg" THEN Encoded(Unsigned(getEncodingValue(MO.reg)), Fx)
    ELSE IF MO.kind = "imm" THEN Encoded(Unsigned(MO.imm), Fx)
    ELSE IF MO.kind = "fpimm" THEN Encoded(Unsigned(MO.imm), Fx)
    ELSE getExprOpValue(MO.expr, Fx)

emitByte(C, Out) == Append(Out, C % 256)

emitWordHighFirst(word, Out) ==
    emitByte(Bits(word, 0, 8), emitByte(Bits(word, 8, 8), Out))

emitWord(word, Out) ==
    emitByte(Bits(word, 8, 8), emitByte(Bits(word, 0, 8), Out))

\* the loop of emitWords from index i downwards
RECURSIVE emitWordsFrom(_, _, _)
emitWordsFrom(Words, i, Out) ==
    IF i >= 0 THEN emitWordsFrom(Words, i - 1, emitWord(Words[i + 1], Out))
    ELSE Out

emitWordsShort(Words, Count, Out) == emitWordsFrom(Words, Count - 2, Out)

emitWords(Words, Count, Out) == emitWordsFrom(Words, Count - 1, Out)

\* the uint16_t array a host sees behind a uint64_t
HostWords(Val, bigEndian) ==
    IF bigEndian THEN <<Val[4], Val[3], Val[2], Val[1]>> ELSE Val

emitInstruction(Val, Size, bigEndian, Out) ==
    LET words == HostWords(Val, bigEndian)
        wordCount == Size \div 2
    IN  emitWords(words, wordCount, Out)

\* one variable field of an encoding descriptor: the operand encoder, its
\* fixup kind, the operand index, and the pieces <<from bit, width, to bit>>
Field(enc, fixup, OpNo, pieces) ==
    [enc |-> enc, fixup |-> fixup, OpNo |-> OpNo, pieces |-> pieces]

RegField(OpNo, pieces) == Field("getMachineOpValue", "none", OpNo, pieces)

Desc(Size, Inst, Fields, Post) ==
    [Size |-> Size, Inst |-> Inst, Fields |-> Fields, Post |-> Post]

LoadDesc(lowWord) ==
    Desc(2, <<lowWord, 0, 0, 0>>,
         <<RegField(0, <<<<0, 5, 4>>>>),
           Field("encodeLDSTPtrReg", "none", 1, <<<<0, 2, 2>>>>)>>,
         "loadStorePostEncoder")

StoreDesc(lowWord) ==
    Desc(2, <<lowWord, 0, 0, 0>>,
         <<Field("encodeLDSTPtrReg", "none", 0, <<<<0, 2, 2>>>>),
           RegField(1, <<<<0, 5, 4>>>>)>>,
         "loadStorePostEncoder")

\* MCII.get(opcode): declared size, fixed bits and fields of the opcode
MCII(opcode) ==
    CASE opcode = "ADDRdRr" ->
           Desc(2, <<3072, 0, 0, 0>>,
                <<RegField(0, <<<<0, 5, 4>>>>),
                  RegField(1, <<<<0, 4, 0>>, <<4, 1, 9>>>>)>>, "none")
      [] opcode = "LDIRdK" ->
           Desc(2, <<57344, 0, 0, 0>>,
                <<RegField(0, <<<<0, 4, 4>>>>),
                  Field("encodeImm", "fixup_ldi", 1,
                        <<<<0, 4, 0>>, <<4, 4, 8>>>>)>>, "none")
      [] opcode = "CBRRdK" ->
           Desc(2, <<28672, 0, 0, 0>>,
                <<RegField(0, <<<<0, 4, 4>>>>),
                  Field("encodeComplement", "none", 1,
                        <<<<0, 4, 0>>, <<4, 4, 8>>>>)>>, "none")
      [] opcode = "LDRdPtr" -> LoadDesc(32768)
      [] opcode = "LDRdPtrPi" -> LoadDesc(32769)
      [] opcode = "LDRdPtrPd" -> LoadDesc(32770)
      [] opcode = "STPtrRr" -> StoreDesc(33280)
      [] opcode = "STPtrPiRr" -> StoreDesc(33281)
      [] opcode = "STPtrPdRr" -> StoreDesc(33282)
      [] opcode = "LDDRdPtrQ" ->
           Desc(2, <<32768, 0, 0, 0>>,
                <<RegField(0, <<<<0, 5, 4>>>>),
                  Field("encodeMemri", "none", 1,
                        <<<<0, 3, 0>>, <<3, 2, 10>>, <<5, 1, 13>>,
                          <<6, 1, 3>>>>)>>, "none")
      [] opcode = "LDSRdK" ->
           Desc(4, <<0, 36864, 0, 0>>,
                <<RegField(0, <<<<0, 5, 20>>>>),
                  Field("encodeImm", "fixup_16", 1, <<<<0, 16, 0>>>>)>>,
                "none")
      [] opcode = "CALLk" ->
           Desc(4, <<0, 37902, 0, 0>>,
                <<Field("encodeCallTarget", "none", 0,
                        <<<<0, 16, 0>>, <<16, 1, 16>>, <<17, 5, 20>>>>)>>,
                "none")
      [] opcode = "RJMPk" ->
           Desc(2, <<49152, 0, 0, 0>>,
                <<Field("encodeRelCondBrTarget", "fixup_13_pcrel", 0,
                        <<<<0, 12, 0>>>>)>>, "none")
      [] opcode = "BREQk" ->
           Desc(2, <<61441, 0, 0, 0>>,
                <<Field("encodeRelCondBrTarget", "fixup_7_pcrel", 0,
                        <<<<0, 7, 3>>>>)>>, "none")

\* the operand encoder a field names
EncodeField(f, MI, Fx) ==
    CASE f.enc = "getMachineOpValue" ->
           getMachineOpValue(MI, getOperand(MI, f.OpNo), Fx)
      [] f.enc = "encodeImm" -> encodeImm(f.fixup, MI, f.OpNo, Fx)
      [] f.enc = "encodeComplement" -> encodeComplement(MI, f.OpNo, Fx)
      [] f.enc = "encodeLDSTPtrReg" -> encodeLDSTPtrReg(MI, f.OpNo, Fx)
      [] f.enc = "encodeMemri" -> encodeMemri(MI, f.OpNo, Fx)
      [] f.enc = "encodeCallTarget" -> encodeCallTarget(MI, f.OpNo, Fx)
      [] f.enc = "encodeRelCondBrTarget" ->
           encodeRelCondBrTarget(f.fixup, MI, f.OpNo, Fx)

\* Value |= (op & mask) << shift, for each piece of a field
RECURSIVE PlacePieces(_, _, _, _)
PlacePieces(Value, u, pieces, k) ==
    IF k > Len(pieces) THEN Value
    ELSE LET p == pieces[k]
             w == p[3] \div 16 + 1
         IN  PlacePieces([Value EXCEPT
                             ![w] = @ + UBits(u, p[1], p[2]) * Pow2(p[3] % 16)],
                         u, pieces, k + 1)

RECURSIVE EncodeFields(_, _, _, _, _)
EncodeFields(MI, Fields, k, Value, Fx) ==
    IF k > Len(Fields) THEN [Value |-> Value, Fixups |-> Fx]
    ELSE LET e == EncodeField(Fields[k], MI, Fx)
         IN  EncodeFields(MI, Fields, k + 1,
                          PlacePieces(Value, e.val, Fields[k].pieces, 1),
                          e.Fixups)

getBinaryCodeForInstr(MI, Fx) ==
    LET D == MCII(MI.opcode)
        g == EncodeFields(MI, D.Fields, 1, D.Inst, Fx)
        post == loadStorePostEncoder(MI, <<g.Value[1], g.Value[2]>>)
    IN  IF D.Post = "loadStorePostEncoder"
        THEN [Value |-> <<post[1], post[2], g.Value[3], g.Value[4]>>,
              Fixups |-> g.Fixups]
        ELSE g

encodeInstruction(MI, Out, Fx, bigEndian) ==
    LET Size == MCII(MI.opcode).Size
        r == getBinaryCodeForInstr(MI, Fx)
    IN  [OS |-> emitInstruction(r.Value, Size, bigEndian, Out),
         Fixups |-> r.Fixups, BinaryOpCode |-> r.Value]

----------------------------------------------------------------------------
(* The instructions, values and streams the emitter is run on.             *)

GPR8s == {"R0", "R17", "R31"}

LD8s == {"R16", "R31"}

PtrRegs == {"R27R26", "R29R28", "R31R30"}

ImmVals == ((0 - MaxImm) .. MaxImm) \cup {63, 64, 255, 70000}

LeafExprs ==
    {MCExpr("SymbolRef", "None", FALSE, 0, "none"),
     MCExpr("Target", "None", TRUE, 5, "fixup_lo8_ldi"),
     MCExpr("Target", "None", FALSE, 0, "fixup_lo8_ldi")}

Exprs ==
    LeafExprs
        \cup {MCExpr("Binary", e.kind, e.foldable, e.value, e.fixupKind) :
                 e \in LeafExprs}

ImmOperands == {createImm(v) : v \in ImmVals}

ImmOrExprOperands == ImmOperands \cup {createExpr(e) : e \in Exprs}

LoadOpcodes == {"LDRdPtr", "LDRdPtrPi", "LDRdPtrPd"}

StoreOpcodes == {"STPtrRr", "STPtrPiRr", "STPtrPdRr"}

Insts ==
    {MCInst("ADDRdRr", <<createReg(a), createReg(b)>>) :
        a \in GPR8s, b \in GPR8s}
    \cup {MCInst("LDIRdK", <<createReg(a), k>>) :
             a \in LD8s, k \in ImmOrExprOperands}
    \cup {MCInst("CBRRdK", <<createReg(a), k>>) : a \in LD8s, k \in ImmOperands}
    \cup {MCInst(o, <<createReg(a), createReg(p)>>) :
             o \in LoadOpcodes, a \in GPR8s, p \in PtrRegs}
    \cup {MCInst(o, <<createReg(p), createReg(a)>>) :
             o \in StoreOpcodes, a \in GPR8s, p \in PtrRegs}
    \cup {MCInst("LDDRdPtrQ", <<createReg(a), createReg(p), q>>) :
             a \in GPR8s, p \in {"R29R28", "R31R30"}, q \in ImmOrExprOperands}
    \cup {MCInst("LDSRdK", <<createReg(a), k>>) :
             a \in GPR8s, k \in ImmOrExprOperands}
    \cup {MCInst(o, <<k>>) :
             o \in {"CALLk", "RJMPk", "BREQk"}, k \in ImmOrExprOperands}

\* what the stream and the fixup list hold before the call
PriorStreams == {<<>>, <<12, 148>>}

PriorFixups ==
    {<<>>, <<MCFixup(0, MCExpr("SymbolRef", "None", FALSE, 0, "none"),
                     "fixup_call")>>}

\* an instruction with a floating-point immediate operand
FPInsts == {MCInst("LDIRdK", <<createReg("R16"), createFPImm(16368)>>)}

\* the instructions of Insts with one of the given opcodes
InstsOf(opcodes) == {MI \in Insts : MI.opcode \in opcodes}

\* the index and the fixup kind the opcode's descriptor gives the field that
\* the named operand encoder fills
FieldOf(opcode, enc) ==
    LET F == MCII(opcode).Fields
    IN  F[CHOOSE k \in 1 .. Len(F) : F[k].enc = enc]

\* instructions handed to the post-encoder: any two register operands
PostEncoderInsts ==
    {MCInst(o, <<createReg(a), createReg(b)>>) :
        o \in LoadOpcodes \cup StoreOpcodes,
        a \in GPR8s \cup PtrRegs, b \in GPR8s \cup PtrRegs}

EncodedValues ==
    {<<lo, hi>> : lo \in {0, 32768, 32780, 33281, 36864, 4096, 65535, 61439},
                  hi \in {0, 43981}}

WordVals == {0, 4660, 43981}

Vals == {<<a, b, c, d>> : a \in WordVals, b \in WordVals,
                          c \in {0, 4660}, d \in {0, 22136}}

\* declared sizes: even, and no wider than the uint64_t value
Sizes == {2, 4, 6, 8}

\* constant offsets of a store relative to a register
StoreOffsets == {1, 2, 65535}

\* base pointers of a store: a frame slot, a constant, SP + constant, another
\* register + constant, a computed value + constant, a register copy
StoreBasePtrs ==
    {PtrNode("FrameIndex", <<>>), PtrNode("Constant", <<>>),
     PtrNode("CopyFromReg",
             <<InRes(NodeChain, 0, "Other"), getRegister(index2VirtReg(0), "i16")>>)}
    \cup {PtrNode("ADD", <<b, ConstantValue(c, "i16")>>) :
             b \in {getRegister(SP, "i16"), getRegister(R31R30, "i16"),
                    InRes(NodeVal, 1, "i16")},
             c \in StoreOffsets}

StoreNodes ==
    {SDNode("STORE", FALSE, <<"Other">>,
            <<InRes(NodeChain, 0, "Other"), InRes(NodeVal, 0, vt),
              InRes(NodePtr, 0, "i16"), SDValue("undef", 0, 0, "i16")>>,
            "NON_EXTLOAD", "UNINDEXED", vt, 0, 0, B, 1) :
        B \in StoreBasePtrs, vt \in MemVTs}

\* result types of a load: value, updated pointer when indexed, chain
LoadVTs(LD) ==
    IF LD.AM = "UNINDEXED" THEN <<LD.VT, "Other">>
    ELSE <<LD.VT, "i16", "Other">>

LoadNodes ==
    {SDNode("LOAD", FALSE, LoadVTs(LD),
            <<LD.Chain, LD.BasePtr, SDValue("Constant", LD.Offs, 0, "i16")>>,
            LD.ext, LD.AM, LD.VT, LD.Offs, as, NoPtrNode, 1) :
        LD \in Loads, as \in {0 - 1, 0, 1}}

Callees ==
    {SDValue("TargetGlobalAddress", 1, 0, "i16"),
     SDValue("TargetExternalSymbol", 1, 0, "i16"),
     InRes(NodeVal, 0, "i16")}

\* a call: chain, callee, argument registers, register mask, incoming glue
CallNodes ==
    {PlainSDNode("CALL", FALSE, <<"Other", "Glue">>,
                 <<InRes(NodeChain, 0, "Other"), callee>>
                     \o [k \in 1 .. n |-> getRegister(20 + k, "i8")]
                     \o <<SDValue("RegisterMask", 0, 0, "Untyped")>>
                     \o (IF glued THEN <<InRes(NodeArg, 1, "Glue")>> ELSE <<>>)) :
        callee \in Callees, n \in 0 .. MaxCallArgs, glued \in BOOLEAN}

FrameIndexNodes ==
    {SDNode("FrameIndex", FALSE, <<"i16">>, <<>>, "NON_EXTLOAD", "UNINDEXED",
            "none", fi, 0 - 1, NoPtrNode, 0) : fi \in 0 .. MaxFI}

\* an indirect branch, a node that is selected already, and a node Select
\* has no case for
OtherNodes ==
    {PlainSDNode("BRIND", FALSE, <<"Other">>,
                 <<InRes(NodeChain, 0, "Other"), InRes(NodeVal, 0, "i16")>>),
     PlainSDNode("LDIRdK", TRUE, <<"i8">>, <<TargetConstantValue(1, "i8")>>),
     PlainSDNode("ADD", FALSE, <<"i8">>,
                 <<InRes(NodeVal, 0, "i8"), InRes(NodeArg, 0, "i8")>>)}

SelectAsmLists == {<<>>, <<"use1">>, <<"use2">>, <<"def2">>, <<"imm", "ec2">>}

AsmSDNode(kinds, glued) ==
    PlainSDNode("INLINEASM", FALSE, AsmNode(kinds, glued).vts,
                AsmNode(kinds, glued).ops)

AsmNodes == {AsmSDNode(kinds, glued) : kinds \in SelectAsmLists, glued \in BOOLEAN}

SelectNodes ==
    StoreNodes \cup LoadNodes \cup CallNodes \cup FrameIndexNodes
        \cup OtherNodes \cup AsmNodes

----------------------------------------------------------------------------
Init ==
    /\ op = "none"
    /\ arg = <<>>
    /\ ret = <<>>
    /\ Base = NullSDValue
    /\ Disp = NullSDValue
    /\ created = <<>>
    /\ GUOps = <<>>
    /\ NumVirtRegs = 0
    /\ asmLog = <<>>
    /\ Fixups = <<>>
    /\ OS = <<>>
    /\ Replaced = <<>>
    /\ MemRefs = <<>>
    /\ Morphed = NoNode

Idle == op = "none"

Return ==
    /\ ~Idle
    /\ op' = "none"
    /\ arg' = <<>>
    /\ ret' = <<>>
    /\ Base' = NullSDValue
    /\ Disp' = NullSDValue
    /\ created' = <<>>
    /\ GUOps' = <<>>
    /\ asmLog' = <<>>
    /\ Fixups' = <<>>
    /\ OS' = <<>>
    /\ Replaced' = <<>>
    /\ MemRefs' = <<>>
    /\ Morphed' = NoNode
    /\ UNCHANGED NumVirtRegs

SelectAddr ==
    /\ Idle
    /\ \E VT \in MemVTs, N \in AddrNodes, prior \in PriorValues :
        LET r == selectAddr(VT, N, prior, prior)
        IN  /\ op' = "selectAddr"
            /\ arg' = [VT |-> VT, N |-> N, Base0 |-> prior, Disp0 |-> prior]
            /\ ret' = r.ret
            /\ Base' = r.Base
            /\ Disp' = r.Disp
            /\ created' = <<>>
            /\ UNCHANGED <<GUOps, NumVirtRegs, asmLog, emitterVars, dagVars>>

SelectIndexedLoad ==
    /\ Idle
    /\ \E LD \in Loads :
        LET r == selectIndexedLoad(LD)
        IN  /\ op' = "selectIndexedLoad"
            /\ arg' = [LD |-> LD]
            /\ ret' = r.ret
            /\ created' = r.created
            /\ UNCHANGED <<Base, Disp, GUOps, NumVirtRegs, asmLog, emitterVars, dagVars>>

SelectIndexedProgMemLoad ==
    /\ Idle
    /\ \E LD \in Loads :
        /\ op' = "selectIndexedProgMemLoad"
        /\ arg' = [LD |-> LD]
        /\ ret' = selectIndexedProgMemLoad(LD, LD.VT)
        /\ UNCHANGED <<Base, Disp, created, GUOps, NumVirtRegs, asmLog, emitterVars, dagVars>>

\* a node with register outputs always has a glued user reading them
SelectInlineAsm ==
    /\ Idle
    /\ \E kinds \in GroupLists, glued \in BOOLEAN, withGU \in BOOLEAN,
       oob \in BOOLEAN :
        LET N == AsmNode(kinds, glued)
            GU == IF withGU THEN GluedUserOps ELSE <<>>
            r == selectInlineAsm(N, NumVirtRegs, GU, oob)
        IN  /\ HasDefGroup(kinds) => withGU
            /\ r.NumVirtRegs <= MaxVirtRegs
            /\ op' = "selectInlineAsm"
            /\ arg' = [N |-> N, GUOps |-> GU, NumVirtRegs |-> NumVirtRegs]
            /\ ret' = r.ret
            /\ created' = r.created
            /\ GUOps' = r.GUOps
            /\ NumVirtRegs' = r.NumVirtRegs
            /\ asmLog' = r.log
            /\ UNCHANGED <<Base, Disp, emitterVars, dagVars>>

\* the host's byte order is a property of the build
EncodeInstruction ==
    /\ Idle
    /\ \E MI \in Insts, OS0 \in PriorStreams, Fixups0 \in PriorFixups,
       bigEndian \in BOOLEAN :
        LET r == encodeInstruction(MI, OS0, Fixups0, bigEndian)
        IN  /\ op' = "encodeInstruction"
            /\ arg' = [MI |-> MI, OS0 |-> OS0, Fixups0 |-> Fixups0,
                       bigEndian |-> bigEndian]
            /\ ret' = r.BinaryOpCode
            /\ OS' = r.OS
            /\ Fixups' = r.Fixups
            /\ UNCHANGED selectorVars

EmitInstruction ==
    /\ Idle
    /\ \E Val \in Vals, Size \in Sizes, OS0 \in PriorStreams,
       bigEndian \in BOOLEAN :
        /\ op' = "emitInstruction"
        /\ arg' = [Val |-> Val, Size |-> Size, OS0 |-> OS0,
                   bigEndian |-> bigEndian]
        /\ ret' = <<>>
        /\ OS' = emitInstruction(Val, Size, bigEndian, OS0)
        /\ UNCHANGED <<Fixups, selectorVars>>

LoadStorePostEncoder ==
    /\ Idle
    /\ \E MI \in PostEncoderInsts, EncodedValue \in EncodedValues :
        /\ op' = "loadStorePostEncoder"
        /\ arg' = [MI |-> MI, EncodedValue |-> EncodedValue]
        /\ ret' = loadStorePostEncoder(MI, EncodedValue)
        /\ UNCHANGED <<emitterVars, selectorVars>>

\* an asm node has a glued user reading its outputs
SelectStep ==
    /\ Idle
    /\ \E N \in SelectNodes, oob \in BOOLEAN :
        \E GU \in {IF N.opc = "INLINEASM" THEN GluedUserOps ELSE <<>>} :
        \E r \in {Select(N, GU, NumVirtRegs, oob)} :
            /\ r.NumVirtRegs <= MaxVirtRegs
            /\ op' = "Select"
            /\ arg' = [N |-> N, GUOps |-> GU, NumVirtRegs |-> NumVirtRegs]
            /\ ret' = [node |-> r.ret, SelectCode |-> r.generic]
            /\ created' = r.created
            /\ Replaced' = r.Replaced
            /\ MemRefs' = r.MemRefs
            /\ Morphed' = r.Morphed
            /\ GUOps' = r.GUOps
            /\ NumVirtRegs' = r.NumVirtRegs
            /\ asmLog' = r.log
            /\ UNCHANGED <<Base, Disp, emitterVars>>

\* instruction selection of one node
NextSelect ==
    \/ SelectStep
    \/ Return

SpecSelect == Init /\ [][NextSelect]_vars

\* the addressing-mode matchers
NextAddr ==
    \/ SelectAddr
    \/ SelectIndexedLoad
    \/ SelectIndexedProgMemLoad
    \/ Return

SpecAddr == Init /\ [][NextAddr]_vars

\* the inline-asm operand legalizer
NextAsm ==
    \/ SelectInlineAsm
    \/ Return

SpecAsm == Init /\ [][NextAsm]_vars

EncodeRelCondBrTarget ==
    /\ Idle
    /\ \E MI \in InstsOf({"RJMPk", "BREQk"}), Fixups0 \in PriorFixups :
        LET f == FieldOf(MI.opcode, "encodeRelCondBrTarget")
            r == encodeRelCondBrTarget(f.fixup, MI, f.OpNo, Fixups0)
        IN  /\ op' = "encodeRelCondBrTarget"
            /\ arg' = [MI |-> MI, OpNo |-> f.OpNo, Fixup |-> f.fixup,
                       Fixups0 |-> Fixups0]
            /\ ret' = r.val
            /\ Fixups' = r.Fixups
            /\ UNCHANGED <<OS, selectorVars>>

EncodeCallTarget ==
    /\ Idle
    /\ \E MI \in InstsOf({"CALLk"}), Fixups0 \in PriorFixups :
        LET f == FieldOf(MI.opcode, "encodeCallTarget")
            r == encodeCallTarget(MI, f.OpNo, Fixups0)
        IN  /\ op' = "encodeCallTarget"
            /\ arg' = [MI |-> MI, OpNo |-> f.OpNo, Fixups0 |-> Fixups0]
            /\ ret' = r.val
            /\ Fixups' = r.Fixups
            /\ UNCHANGED <<OS, selectorVars>>

EncodeImm ==
    /\ Idle
    /\ \E MI \in InstsOf({"LDIRdK", "LDSRdK"}), Fixups0 \in PriorFixups :
        LET f == FieldOf(MI.opcode, "encodeImm")
            r == encodeImm(f.fixup, MI, f.OpNo, Fixups0)
        IN  /\ op' = "encodeImm"
            /\ arg' = [MI |-> MI, OpNo |-> f.OpNo, Fixup |-> f.fixup,
                       Fixups0 |-> Fixups0]
            /\ ret' = r.val
            /\ Fixups' = r.Fixups
            /\ UNCHANGED <<OS, selectorVars>>

\* the generic operand path, on any operand of any instruction
GetMachineOpValue ==
    /\ Idle
    /\ \E MI \in Insts \cup FPInsts, Fixups0 \in PriorFixups :
        \E OpNo \in 0 .. Len(MI.ops) - 1 :
            LET r == getMachineOpValue(MI, getOperand(MI, OpNo), Fixups0)
            IN  /\ op' = "getMachineOpValue"
                /\ arg' = [MI |-> MI, OpNo |-> OpNo, Fixups0 |-> Fixups0]
                /\ ret' = r.val
                /\ Fixups' = r.Fixups
                /\ UNCHANGED <<OS, selectorVars>>

EncodeMemri ==
    /\ Idle
    /\ \E MI \in InstsOf({"LDDRdPtrQ"}), Fixups0 \in PriorFixups :
        LET f == FieldOf(MI.opcode, "encodeMemri")
            r == encodeMemri(MI, f.OpNo, Fixups0)
        IN  /\ op' = "encodeMemri"
            /\ arg' = [MI |-> MI, OpNo |-> f.OpNo, Fixups0 |-> Fixups0]
            /\ ret' = r.val
            /\ Fixups' = r.Fixups
            /\ UNCHANGED <<OS, selectorVars>>

EncodeComplement ==
    /\ Idle
    /\ \E MI \in InstsOf({"CBRRdK"}), Fixups0 \in PriorFixups :
        LET f == FieldOf(MI.opcode, "encodeComplement")
            r == encodeComplement(MI, f.OpNo, Fixups0)
        IN  /\ op' = "encodeComplement"
            /\ arg' = [MI |-> MI, OpNo |-> f.OpNo, Fixups0 |-> Fixups0]
            /\ ret' = r.val
            /\ Fixups' = r.Fixups
            /\ UNCHANGED <<OS, selectorVars>>

\* the operand encoders
NextOperand ==
    \/ EncodeRelCondBrTarget
    \/ EncodeCallTarget
    \/ EncodeImm
    \/ GetMachineOpValue
    \/ EncodeMemri
    \/ EncodeComplement
    \/ Return

SpecOperand == Init /\ [][NextOperand]_vars

\* the machine-code emitter
NextEmitter ==
    \/ EncodeInstruction
    \/ EmitInstruction
    \/ LoadStorePostEncoder
    \/ Return

SpecEmitter == Init /\ [][NextEmitter]_vars

\* the addressing helpers together with Select, which falls back on them
NextMatch ==
    \/ NextAddr
    \/ NextSelect

SpecMatch == Init /\ [][NextMatch]_vars

\* every operation
Next ==
    \/ NextAddr
    \/ NextAsm
    \/ NextEmitter
    \/ NextOperand
    \/ NextSelect

Spec == Init /\ [][Next]_vars

----------------------------------------------------------------------------
(* Properties of selectAddr.                                               *)

\* the address is base + constant or base - constant, or an OR recognised as
\* base + constant
IsBasePlusConstant(N) ==
    /\ N.opc \in {"ADD", "SUB"} \/ (N.opc = "OR" /\ N.disjoint)
    /\ N.op1.opc = "Constant"

SignedOffset(N) == IF N.opc = "SUB" THEN 0 - N.op1.val ELSE N.op1.val

\* C1: for a base+constant address whose base is no frame slot, selectAddr
\* matches iff the access is 8-bit and 0 <= offset <= 63, or 16-bit and
\* 0 <= offset < 63 (so 63 with a 16-bit access, 64 and every negative offset
\* are no-match); on a match Base is the first operand and Disp the offset.
C1_RegOffsetRange ==
    (op = "selectAddr" /\ IsBasePlusConstant(arg.N)
                      /\ arg.N.op0.opc # "FrameIndex") =>
        LET off == SignedOffset(arg.N)
        IN  /\ ret = (\/ (arg.VT = "i8" /\ 0 <= off /\ off <= 63)
                      \/ (arg.VT = "i16" /\ 0 <= off /\ off < 63))
            /\ ret => (Base = arg.N.op0 /\ Disp.opc = "TargetConstant"
                                        /\ Disp.val = off)

C1_Witness ==
    /\ op = "selectAddr" /\ arg.N.opc = "ADD" /\ arg.VT = "i8"
    /\ arg.N.op0.opc = "CopyFromReg" /\ arg.N.op1 = Constant(63)
    /\ ret /\ Base = arg.N.op0 /\ Disp.val = 63

\* C2: a frame slot, or a frame slot plus or minus any constant, always
\* matches, for either access width; Base is the frame slot and Disp is 0,
\* the constant (ADD) or the negated constant (SUB) as a 16-bit value.
C2_FrameAlwaysMatches ==
    /\ (op = "selectAddr" /\ arg.N.opc = "FrameIndex") =>
            /\ ret
            /\ Base = getTargetFrameIndex(arg.N.val)
            /\ Disp.opc = "TargetConstant" /\ Disp.val = 0
    /\ (op = "selectAddr" /\ arg.N.opc \in {"ADD", "SUB"}
                          /\ arg.N.op0.opc = "FrameIndex"
                          /\ arg.N.op1.opc = "Constant") =>
            /\ ret
            /\ Base = getTargetFrameIndex(arg.N.op0.val)
            /\ Disp.opc = "TargetConstant" /\ Disp.vt = "i16"
            /\ Disp.val = IF arg.N.opc = "ADD" THEN arg.N.op1.val
                          ELSE (65536 - arg.N.op1.val) % 65536

C2_Witness ==
    /\ op = "selectAddr" /\ arg.N.opc = "SUB" /\ arg.VT = "i16"
    /\ arg.N.op0 = FrameIndex(1) /\ arg.N.op1 = Constant(64)
    /\ ret /\ Base = getTargetFrameIndex(1) /\ Disp.val = 65472


----------------------------------------------------------------------------
(* Properties of the indexed-load matchers.                                *)

WidthInBytes(vt) == CASE vt = "i8" -> 1 [] vt = "i16" -> 2 [] OTHER -> 4

\* C3: selectIndexedLoad returns a machine node iff the load is
\* non-extending and is post-increment by +1 (8-bit) or +2 (16-bit), or
\* pre-decrement by -1 (8-bit) or -2 (16-bit); the opcode is LDRdPtrPi,
\* LDRdPtrPd, LDWRdPtrPi or LDWRdPtrPd by width and direction.
C3_IndexedLoadRule ==
    op = "selectIndexedLoad" =>
        LET LD == arg.LD
            match == /\ LD.ext = "NON_EXTLOAD"
                     /\ LD.VT \in {"i8", "i16"}
                     /\ \/ (LD.AM = "POST_INC" /\ LD.Offs = WidthInBytes(LD.VT))
                        \/ (LD.AM = "PRE_DEC" /\ LD.Offs = 0 - WidthInBytes(LD.VT))
        IN  /\ (ret # 0) = match
            /\ ~match => created = <<>>
            /\ match =>
                   /\ Len(created) = 1
                   /\ created[ret].opc =
                          CASE LD.VT = "i8" /\ LD.AM = "POST_INC" -> "LDRdPtrPi"
                            [] LD.VT = "i8" /\ LD.AM = "PRE_DEC" -> "LDRdPtrPd"
                            [] LD.VT = "i16" /\ LD.AM = "POST_INC" -> "LDWRdPtrPi"
                            [] LD.VT = "i16" /\ LD.AM = "PRE_DEC" -> "LDWRdPtrPd"

C3_Witness ==
    /\ op = "selectIndexedLoad" /\ arg.LD.VT = "i16" /\ arg.LD.AM = "PRE_DEC"
    /\ arg.LD.Offs = -2 /\ ret = 1 /\ created[1].opc = "LDWRdPtrPd"

\* C4: selectIndexedProgMemLoad is no-match for every pre-decrement load; for
\* a non-extending post-increment load of 8 or 16 bits it returns an opcode
\* iff the offset is the access width: 1 -> LPMRdZPi, 2 -> LPMWRdZPi.
C4_ProgMemIndexedRule ==
    op = "selectIndexedProgMemLoad" =>
        LET LD == arg.LD
        IN  /\ LD.AM = "PRE_DEC" => ret = "0"
            /\ (LD.AM = "POST_INC" /\ LD.ext = "NON_EXTLOAD"
                                   /\ LD.VT \in {"i8", "i16"}) =>
                   /\ (ret # "0") = (LD.Offs = WidthInBytes(LD.VT))
                   /\ (LD.Offs = 1 /\ LD.VT = "i8") => ret = "LPMRdZPi"
                   /\ (LD.Offs = 2 /\ LD.VT = "i16") => ret = "LPMWRdZPi"

C4_Witness ==
    /\ op = "selectIndexedProgMemLoad" /\ arg.LD.AM = "POST_INC"
    /\ arg.LD.ext = "NON_EXTLOAD" /\ arg.LD.VT = "i16" /\ arg.LD.Offs = 2
    /\ ret = "LPMWRdZPi"


----------------------------------------------------------------------------
(* Properties of selectInlineAsm.                                          *)

\* the places (0-based) of the flag words of an operand list: each flag word
\* is followed by as many operands as it declares
RECURSIVE FlagPlaces(_, _, _)
FlagPlaces(ops, i, e) ==
    IF i >= e THEN {}
    ELSE {i} \cup FlagPlaces(ops, i + 1 + ops[i + 1].flag.numRegs, e)

LastGroupOperand(N) ==
    IF hasGluedNode(N) THEN getNumOperands(N) - 1 ELSE getNumOperands(N)

AsmFlagPlaces(N) == FlagPlaces(N.ops, Op_FirstOperand, LastGroupOperand(N))

IsGPR8Pair(Flag) ==
    /\ Flag.kind \in {Kind_RegUse, Kind_RegDef, Kind_RegDefEarlyClobber}
    /\ Flag.numRegs = 2
    /\ ~Flag.matching /\ Flag.high = GPR8RegClassID + 1

HasGPR8Pair(N) == \E i \in AsmFlagPlaces(N) : IsGPR8Pair(getOperand(N, i).flag)

\* C5: on an asm node without a group of exactly two GPR8 registers,
\* selectInlineAsm returns null, creates no node, allocates no virtual
\* register and leaves the glued user's operands as they were.
C5_NoPairNoChange ==
    (op = "selectInlineAsm" /\ ~HasGPR8Pair(arg.N)) =>
        /\ ret = 0
        /\ created = <<>>
        /\ NumVirtRegs = arg.NumVirtRegs
        /\ GUOps = arg.GUOps
        /\ asmLog = <<>>

\* three groups, two of them of two registers, and an immediate whose value
\* reads as a flag word, none rewritten
C5_Witness ==
    /\ op = "selectInlineAsm" /\ ~HasGPR8Pair(arg.N)
    /\ Cardinality(AsmFlagPlaces(arg.N)) = 3
    /\ \E i \in AsmFlagPlaces(arg.N) : getOperand(arg.N, i).flag.kind = Kind_Imm
    /\ \E i \in AsmFlagPlaces(arg.N) :
           /\ getOperand(arg.N, i).flag.numRegs = 2
           /\ getOperand(arg.N, i).flag.kind = Kind_RegDef
    /\ \E i \in AsmFlagPlaces(arg.N) : getOperand(arg.N, i).flag.matching
    /\ GUOps # <<>>
    /\ ret = 0

\* the operand list the rewriting is meant to give, from operand i on: every
\* operand in order, but each rewritten group as its new flag word and its
\* composite register
RECURSIVE ExpectedOperands(_, _, _)
ExpectedOperands(N, log, i) ==
    IF i >= LastGroupOperand(N) THEN <<>>
    ELSE IF \E n \in 1 .. Len(log) : log[n].i = i
    THEN LET e == log[CHOOSE n \in 1 .. Len(log) : log[n].i = i]
             F1 == getFlagWord(e.Kind, 1)
             F2 == IF e.tied
                   THEN getFlagWordForMatchingOp(F1, getOperand(N, i).flag.high)
                   ELSE getFlagWordForRegClass(F1, GPR8QuadRegClassID)
         IN  <<FlagOperand(F2), getRegister(e.GPVR, "Untyped")>>
                 \o ExpectedOperands(N, log, i + 3)
    ELSE <<getOperand(N, i)>> \o ExpectedOperands(N, log, i + 1)

\* the group operands of the node returned
NewGroupOperands ==
    LET ops == created[ret].ops
        last == IF ops[Len(ops)].vt = "Glue" THEN Len(ops) - 1 ELSE Len(ops)
    IN  SubSeq(ops, Op_FirstOperand + 1, last)

\* C6: the node returned has every input operand, in order, except the two
\* registers of each rewritten group, which its composite register replaces:
\* the scan resumes right after the two registers and drops nothing.
C6_NoOperandDropped ==
    (op = "selectInlineAsm" /\ ret # 0) =>
        NewGroupOperands = ExpectedOperands(arg.N, asmLog, Op_FirstOperand)

\* nodes of the call that are copies of a value extracted from `read'
CopiesOut(read) ==
    {n \in 1 .. Len(created) :
        /\ created[n].opc = "CopyToReg"
        /\ created[n].ops[3].k = "new"
        /\ created[created[n].ops[3].id].opc = "EXTRACT_SUBREG"
        /\ created[created[n].ops[3].id].ops[1] = NewRes(read, 0, "Untyped")}

\* node n copies sub-register idx of `read' into register reg
CopiesSubReg(n, read, idx, reg) ==
    /\ created[n].ops[2] = getRegister(reg, "i8")
    /\ created[created[n].ops[3].id].ops = <<NewRes(read, 0, "Untyped"),
                                              SubRegIndex(idx)>>

\* C7: for each rewritten def (or early-clobber def) group one composite
\* virtual register is allocated and read once, and exactly two copies are
\* created: first sub-register 0 of that read into the group's first
\* register, then sub-register 1 of it into the second.
C7_DefPairCopies ==
    op = "selectInlineAsm" =>
        /\ NumVirtRegs - arg.NumVirtRegs = Len(asmLog)
        /\ \A a, b \in 1 .. Len(asmLog) :
               a # b => asmLog[a].GPVR # asmLog[b].GPVR
        /\ \A a \in 1 .. Len(asmLog) :
               asmLog[a].Kind \in {Kind_RegDef, Kind_RegDefEarlyClobber} =>
                   LET e == asmLog[a]
                       reads == {n \in 1 .. Len(created) :
                                   /\ created[n].opc = "CopyFromReg"
                                   /\ created[n].ops[2] =
                                          getRegister(e.GPVR, "Untyped")}
                   IN  /\ e.GPVR >= index2VirtReg(arg.NumVirtRegs)
                       /\ Cardinality(reads) = 1
                       /\ LET read == CHOOSE n \in reads : TRUE
                              copies == CopiesOut(read)
                          IN  /\ Cardinality(copies) = 2
                              /\ \E c0, c1 \in copies :
                                     /\ c0 < c1
                                     /\ CopiesSubReg(c0, read, 0,
                                            getOperand(arg.N, e.i + 1).id)
                                     /\ CopiesSubReg(c1, read, 1,
                                            getOperand(arg.N, e.i + 2).id)

\* a def group and an early-clobber def group, both rewritten
C7_Witness ==
    /\ op = "selectInlineAsm" /\ Len(asmLog) = 2
    /\ asmLog[1].Kind = Kind_RegDef
    /\ asmLog[2].Kind = Kind_RegDefEarlyClobber
    /\ NumVirtRegs = arg.NumVirtRegs + 2

----------------------------------------------------------------------------
(* Properties of the machine-code emitter.                                 *)

IsPrefix(s, t) == Len(s) <= Len(t) /\ SubSeq(t, 1, Len(s)) = s

NoExprOperand(MI) ==
    \A k \in 1 .. Len(MI.ops) : MI.ops[k].kind \in {"reg", "imm"}

\* C8: for an instruction whose operands are all registers or immediates,
\* encodeInstruction appends no fixup to the fixup list and writes exactly
\* Size bytes to the output stream, Size being the opcode's declared size.
C8_NoFixupsSizeBytes ==
    (op = "encodeInstruction" /\ NoExprOperand(arg.MI)) =>
        /\ Fixups = arg.Fixups0
        /\ IsPrefix(arg.OS0, OS)
        /\ Len(OS) = Len(arg.OS0) + MCII(arg.MI.opcode).Size

C8_Witness ==
    /\ op = "encodeInstruction"
    /\ arg.MI.opcode = "LDSRdK"
    /\ NoExprOperand(arg.MI)
    /\ arg.Fixups0 # <<>>
    /\ arg.OS0 # <<>>
    /\ Len(OS) = Len(arg.OS0) + 4

\* the bytes of the words Val[from], ..., Val[to] (step +1 or -1), each word
\* low byte first
RECURSIVE WordBytes(_, _, _)
WordBytes(Val, from, to) ==
    <<Val[from] % 256, Val[from] \div 256>>
        \o (IF from = to THEN <<>>
            ELSE WordBytes(Val, IF from < to THEN from + 1 ELSE from - 1, to))

\* C9 as stated: for a declared size of 4 or more, emitInstruction writes the
\* words from the least-significant word of the encoded value to the
\* most-significant one, each word low byte first.
C9_LeastSignificantWordFirst ==
    (op = "emitInstruction" /\ arg.Size >= 4) =>
        OS = arg.OS0 \o WordBytes(arg.Val, 1, arg.Size \div 2)

\* C9: on a little-endian host, for a declared size of 4 or more,
\* emitInstruction writes the Size/2 low words of the encoded value from the
\* most-significant of them down to the least-significant word, each word
\* low byte first.
C9_MostSignificantWordFirst ==
    (op = "emitInstruction" /\ arg.Size >= 4 /\ ~arg.bigEndian) =>
        OS = arg.OS0 \o WordBytes(arg.Val, arg.Size \div 2, 1)

C9_Witness ==
    /\ op = "emitInstruction"
    /\ arg.Size = 4
    /\ ~arg.bigEndian
    /\ arg.Val = <<4660, 43981, 0, 0>>
    /\ arg.OS0 = <<>>
    /\ OS = <<205, 171, 52, 18>>

\* C10: loadStorePostEncoder returns the generic value with bit 12 set when
\* the opcode is a pre-decrement or post-increment load/store, whatever the
\* registers, or when either operand register is X; for a direct opcode with
\* neither operand X it returns the generic value unchanged; no bit other
\* than bit 12 differs between input and result.
C10_PostEncoderBit12 ==
    op = "loadStorePostEncoder" =>
        LET in == arg.EncodedValue
            indexed == arg.MI.opcode \in
                           {"LDRdPtrPd", "STPtrPdRr", "LDRdPtrPi", "STPtrPiRr"}
            hasX == \E k \in 1 .. 2 : arg.MI.ops[k].reg = "R27R26"
        IN  /\ (indexed \/ hasX) => Bits(ret[1], 12, 1) = 1
            /\ ~(indexed \/ hasX) => ret = in
            /\ ret[2] = in[2]
            /\ \A b \in 0 .. 15 :
                   b # 12 => Bits(ret[1], b, 1) = Bits(in[1], b, 1)

C10_Witness ==
    /\ op = "loadStorePostEncoder"
    /\ arg.MI.opcode = "STPtrRr"
    /\ arg.MI.ops[1].reg = "R31"
    /\ arg.MI.ops[2].reg = "R27R26"
    /\ arg.EncodedValue = <<32780, 0>>
    /\ ret = <<36876, 0>>

----------------------------------------------------------------------------
(* Properties of the operand encoders.                                     *)

\* the operand the recorded call encodes
ArgOperand == getOperand(arg.MI, arg.OpNo)

\* the recorded call appended exactly the one fixup fx
AppendedOne(fx) == Fixups = Append(arg.Fixups0, fx)

\* C11: encodeRelCondBrTarget and encodeCallTarget: for an immediate V the
\* field is V after the fixed branch-target adjustment and no fixup is
\* appended; for a symbolic operand exactly one fixup of the branch kind
\* (respectively the call kind) is appended, at offset 0, and the field is 0.
C11_BranchCallTarget ==
    op \in {"encodeRelCondBrTarget", "encodeCallTarget"} =>
        LET kind == IF op = "encodeCallTarget" THEN "fixup_call" ELSE arg.Fixup
        IN  IF ArgOperand.kind = "imm"
            THEN /\ ret = Unsigned(adjustBranchTarget(ArgOperand.imm))
                 /\ Fixups = arg.Fixups0
            ELSE /\ ret = <<0, 0>>
                 /\ AppendedOne([Offset |-> 0, Value |-> ArgOperand.expr,
                                 Kind |-> kind])

C11_Witness ==
    /\ op = "encodeCallTarget"
    /\ ArgOperand.kind = "imm"
    /\ ArgOperand.imm = 70000
    /\ ret = <<4463, 1>>
    /\ arg.Fixups0 # <<>>
    /\ Fixups = arg.Fixups0

\* C12: a symbolic operand encoded by getMachineOpValue / getExprOpValue or
\* by encodeImm: a target-specific expression that folds to a constant gives
\* that constant and no fixup; every other expression gives field 0 and
\* exactly one appended fixup.
C12_SymbolicFixupOrConstant ==
    (op \in {"getMachineOpValue", "encodeImm"} /\ ArgOperand.kind = "expr") =>
        LET e == ArgOperand.expr
        IN  IF e.kind = "Target" /\ e.foldable
            THEN ret = Unsigned(e.value) /\ Fixups = arg.Fixups0
            ELSE /\ ret = <<0, 0>>
                 /\ Len(Fixups) = Len(arg.Fixups0) + 1
                 /\ IsPrefix(arg.Fixups0, Fixups)

\* the displacement operand of a memri pair, which follows the register
MemriOffsetOp == getOperand(arg.MI, arg.OpNo + 1)

MemriRegBit == IF ArgOperand.reg = "R29R28" THEN 1 ELSE 0

\* C13: encodeMemri returns a 7-bit value for every immediate displacement:
\* bits 0-5 hold the displacement, bit 6 is the register select bit (Z = 0,
\* Y = 1), no bit above bit 6 is set; for a symbolic displacement bits 0-5
\* are 0 and exactly one 6-bit-displacement fixup is appended.
C13_MemriSevenBits ==
    op = "encodeMemri" =>
        IF MemriOffsetOp.kind = "imm"
        THEN /\ ret[2] = 0
             /\ ret[1] < 128
             /\ Bits(ret[1], 0, 6) = Bits(MemriOffsetOp.imm, 0, 6)
             /\ Bits(ret[1], 6, 1) = MemriRegBit
             /\ Fixups = arg.Fixups0
        ELSE /\ Bits(ret[1], 0, 6) = 0
             /\ AppendedOne([Offset |-> 0, Value |-> MemriOffsetOp.expr,
                             Kind |-> "fixup_6"])

\* C14: encodeComplement returns (-1) - N, reduced to the width of the
\* unsigned result, for every immediate N, zero and negative N included, and
\* appends no fixup.
C14_ComplementExact ==
    op = "encodeComplement" =>
        LET N == ArgOperand.imm
            Expected == (0 - 1) - N
        IN  /\ ret[1] = Expected % 65536
            /\ ret[2] = (Expected \div 65536) % 65536
            /\ Fixups = arg.Fixups0

C14_Witness ==
    /\ op = "encodeComplement"
    /\ ArgOperand.imm = 0 - 2
    /\ ret = <<1, 0>>
    /\ arg.Fixups0 # <<>>

----------------------------------------------------------------------------
(* Properties of Select.                                                   *)

\* the recorded call left the graph as it was and went to the generic table
HandedToGenericTable ==
    /\ ret.SelectCode
    /\ ret.node = 0
    /\ created = <<>>
    /\ Replaced = <<>>
    /\ MemRefs = <<>>
    /\ Morphed = NoNode

\* the base pointer is register-relative to the stack pointer
IsSPRelative(B) ==
    /\ B.opc \notin {"FrameIndex", "Constant"}
    /\ Len(B.ops) >= 1
    /\ B.ops[1] = getRegister(SP, "i16")

\* C15: Select intercepts a store iff its base pointer is neither a frame
\* slot nor a constant and its first operand is the register SP; any other
\* store goes to the generic table unchanged.  An intercepted store gives one
\* machine node with operands (SP, constant offset, stored value, chain),
\* opcode STDWSPQRr iff the stored value is 16-bit and STDSPQRr otherwise,
\* the store's memory operand attached, and the uses of the store's chain
\* result redirected to it.
C15_StoreIntercept ==
    (op = "Select" /\ arg.N.opc = "STORE") =>
        LET N == arg.N
            B == N.BasePtr
        IN  IF IsSPRelative(B)
            THEN /\ ~ret.SelectCode
                 /\ ret.node = 1
                 /\ Len(created) = 1
                 /\ created[1].ops =
                        <<getRegister(SP, "i16"),
                          SDValue("TargetConstant", B.ops[2].id, 0, "i16"),
                          N.ops[2], N.ops[1]>>
                 /\ created[1].opc =
                        (IF N.ops[2].vt = "i16" THEN "STDWSPQRr" ELSE "STDSPQRr")
                 /\ MemRefs = <<[node |-> 1, mmo |-> N.mmo]>>
                 /\ Replaced = <<[from |-> InRes(NodeN, 0, "Other"),
                                  to |-> NewRes(1, 0, "Other")]>>
            ELSE HandedToGenericTable

C15_Witness ==
    /\ op = "Select"
    /\ arg.N.opc = "STORE"
    /\ IsSPRelative(arg.N.BasePtr)
    /\ arg.N.BasePtr.ops[2].id = 2
    /\ arg.N.ops[2].vt = "i16"
    /\ Len(created) = 1
    /\ created[1].opc = "STDWSPQRr"

\* the operands of a call after the callee, an incoming glue left out
CallArguments(N) ==
    SubSeq(N.ops, 3,
           IF N.ops[Len(N.ops)].vt = "Glue" THEN Len(N.ops) - 1 ELSE Len(N.ops))

\* C16: Select intercepts a call iff its callee is no global address and no
\* external symbol; a direct call goes to the generic table.  For an
\* intercepted call the callee is written to R31R30 by a CopyToReg on the
\* call's original chain, and the ICALL node's operands are R31R30, the
\* original operands after the callee without an incoming glue, the chain of
\* the register write, and its glue; the uses of the call's chain and glue
\* results are redirected to those of the ICALL node.
C16_IndirectCall ==
    (op = "Select" /\ arg.N.opc = "CALL") =>
        LET N == arg.N
            Callee == N.ops[2]
        IN  IF Callee.k \in {"TargetGlobalAddress", "TargetExternalSymbol"}
            THEN HandedToGenericTable
            ELSE /\ ~ret.SelectCode
                 /\ Len(created) = 2
                 /\ created[1].opc = "CopyToReg"
                 /\ created[1].ops[1] = N.ops[1]
                 /\ created[1].ops[2] = getRegister(R31R30, "i16")
                 /\ created[1].ops[3] = Callee
                 /\ ret.node = 2
                 /\ created[2].opc = "ICALL"
                 /\ created[2].ops =
                        <<getRegister(R31R30, "i16")>> \o CallArguments(N)
                            \o <<NewRes(1, 0, "Other"), NewRes(1, 1, "Glue")>>
                 /\ Replaced = <<[from |-> InRes(NodeN, 0, "Other"),
                                  to |-> NewRes(2, 0, "Other")],
                                 [from |-> InRes(NodeN, 1, "Glue"),
                                  to |-> NewRes(2, 1, "Glue")]>>

C16_Witness ==
    /\ op = "Select"
    /\ arg.N.opc = "CALL"
    /\ arg.N.ops[2] = InRes(NodeVal, 0, "i16")
    /\ Len(arg.N.ops) = 6
    /\ arg.N.ops[6].vt = "Glue"
    /\ Len(created) = 2
    /\ Len(created[2].ops) = 6

\* what result r of a node with result types vts is: the side-effect chain,
\* the loaded value, the updated pointer, or no result at all
ResultKind(vts, r) ==
    IF r >= Len(vts) THEN "none"
    ELSE IF vts[r + 1] = "Other" THEN "chain"
    ELSE IF r = 0 THEN "value"
    ELSE "pointer"

\* C17: for every 8-bit or 16-bit load from address space 1, Select does not
\* go to the generic table: it creates one LPM-family node (post-increment
\* form when selectIndexedProgMemLoad matches, plain form otherwise) fed by a
\* write-then-read of R31R30 chained after the load's chain, and redirects
\* every result of the load to the result of the same kind of the new node,
\* every result index used existing on both nodes.
C17_ProgMemLoad ==
    (op = "Select" /\ arg.N.opc = "LOAD" /\ arg.N.addrSpace = 1) =>
        LET N == arg.N
            Opc == selectIndexedProgMemLoad(AsLoadSDNode(N), N.VT)
        IN  /\ ~ret.SelectCode
            /\ Len(created) = 3
            /\ ret.node = 3
            /\ created[1].opc = "CopyToReg"
            /\ created[1].ops[1] = N.ops[1]
            /\ created[1].ops[2] = getRegister(R31R30, "i16")
            /\ created[1].ops[3] = N.ops[2]
            /\ created[2].opc = "CopyFromReg"
            /\ created[2].ops[1] = NewRes(1, 0, "Other")
            /\ created[2].ops[2] = getRegister(R31R30, "i16")
            /\ created[3].ops = <<NewRes(2, 0, "i16"), NewRes(2, 1, "Other")>>
            /\ created[3].opc =
                   (IF Opc # "0" THEN Opc
                    ELSE IF N.VT = "i8" THEN "LPMRdZ" ELSE "LPMWRdZ")
            /\ \A r \in 0 .. Len(N.vts) - 1 :
                   \E k \in 1 .. Len(Replaced) : Replaced[k].from.r = r
            /\ \A k \in 1 .. Len(Replaced) :
                   /\ ResultKind(N.vts, Replaced[k].from.r) # "none"
                   /\ ResultKind(N.vts, Replaced[k].from.r)
                          = ResultKind(created[3].vts, Replaced[k].to.r)

----------------------------------------------------------------------------
(* Further properties of selectInlineAsm.                                  *)

\* the flag word the asm node had in front of the group a log entry names
OriginalFlag(e) == getOperand(arg.N, e.i).flag

\* the flag word the new node has in front of the group's composite register
NewFlag(e) ==
    LET New == created[ret]
        j == CHOOSE j \in 2 .. Len(New.ops) :
                 New.ops[j] = getRegister(e.GPVR, "Untyped")
    IN  New.ops[j - 1].flag

\* what holds of every rewritten flag word: kind kept, one register
KindKeptOneRegister(e) ==
    /\ getKind(NewFlag(e)) = getKind(OriginalFlag(e))
    /\ getNumOperandRegisters(NewFlag(e)) = 1

StillTied(e) ==
    isUseOperandTiedToDef(OriginalFlag(e)) =>
        /\ isUseOperandTiedToDef(NewFlag(e))
        /\ TiedDefIdx(NewFlag(e)) = TiedDefIdx(OriginalFlag(e))

CarriesQuadClass(e) ==
    /\ hasRegClassConstraint(NewFlag(e))
    /\ RegClassOf(NewFlag(e)) = GPR8QuadRegClassID

\* C18 as stated: the flag word of every rewritten two-register group keeps
\* the kind, declares one register and carries the GPR8Quad class constraint,
\* and is additionally still tied to the same definition if the original was
\* tied.
C18_FlagQuadAndTied ==
    (op = "selectInlineAsm" /\ ret # 0) =>
        \A k \in 1 .. Len(asmLog) :
            /\ KindKeptOneRegister(asmLog[k])
            /\ CarriesQuadClass(asmLog[k])
            /\ StillTied(asmLog[k])

\* C18: the flag word of every rewritten two-register group keeps the kind
\* and declares one register; if the original was tied to a prior definition
\* it is still tied to the same definition index, and otherwise it carries
\* the GPR8Quad class constraint.
C18_FlagQuadOrTied ==
    (op = "selectInlineAsm" /\ ret # 0) =>
        \A k \in 1 .. Len(asmLog) :
            /\ KindKeptOneRegister(asmLog[k])
            /\ StillTied(asmLog[k])
            /\ ~isUseOperandTiedToDef(OriginalFlag(asmLog[k]))
                   => CarriesQuadClass(asmLog[k])

C18_Witness ==
    /\ op = "selectInlineAsm"
    /\ ret # 0
    /\ Len(asmLog) = 2
    /\ ~isUseOperandTiedToDef(OriginalFlag(asmLog[1]))
    /\ isUseOperandTiedToDef(OriginalFlag(asmLog[2]))
    /\ isUseOperandTiedToDef(NewFlag(asmLog[2]))
    /\ CarriesQuadClass(asmLog[1])

\* the created nodes an operand list refers to
Refs(ops) == {ops[k].id : k \in {k \in 1 .. Len(ops) : ops[k].k = "new"}}

\* the created nodes reachable over operand edges from the set S, among the
\* nodes 1 .. n; a node's operands were created before it
RECURSIVE ReachNew(_, _)
ReachNew(S, n) ==
    IF n = 0 THEN S
    ELSE ReachNew(IF n \in S THEN S \cup Refs(created[n].ops) ELSE S, n - 1)

\* the created nodes the glued user depends on
ReachedFromGU == ReachNew(Refs(GUOps), Len(created))

----------------------------------------------------------------------------
(* Fall-through of the addressing helpers.                                 *)

\* C20: a no-match of an addressing helper is a pure fall-through: when
\* selectAddr returns false, Base and Disp are what they were and no node was
\* created; when selectIndexedLoad or selectIndexedProgMemLoad returns
\* no-match, no machine node was created; and Select hands a load outside
\* address space 1 that selectIndexedLoad does not match to the generic
\* table, the graph unchanged.
C20_NoMatchFallsThrough ==
    /\ (op = "selectAddr" /\ ret = FALSE) =>
           /\ Base = arg.Base0
           /\ Disp = arg.Disp0
           /\ created = <<>>
    /\ (op = "selectIndexedLoad" /\ ret = 0) => created = <<>>
    /\ (op = "selectIndexedProgMemLoad" /\ ret = "0") => created = <<>>
    /\ (op = "Select" /\ arg.N.opc = "LOAD" /\ arg.N.addrSpace # 1
          /\ ~(/\ arg.N.ext = "NON_EXTLOAD"
               /\ arg.N.AM \in {"POST_INC", "PRE_DEC"}
               /\ arg.N.Offs = (IF arg.N.AM = "PRE_DEC" THEN 0 - 1 ELSE 1)
                                   * WidthInBytes(arg.N.VT))) =>
           HandedToGenericTable

C20_Witness ==
    /\ op = "Select"
    /\ arg.N.opc = "LOAD"
    /\ arg.N.addrSpace = 0
    /\ arg.N.ext = "NON_EXTLOAD"
    /\ arg.N.AM = "POST_INC"
    /\ arg.N.VT = "i16"
    /\ arg.N.Offs = 1
    /\ HandedToGenericTable

====
